---- MODULE Spec2Model ----
(***************************************************************************)
(* Privacy Guardian Agents: the LLM-backed rule (GeminiPrivacyRule) and    *)
(* the violation normalizer of the web server's /scan handler.             *)
(*                                                                         *)
(* Texts are TLA+ strings; a character is a string of length one.  The     *)
(* regular expressions of the source are transcribed as syntax trees and   *)
(* run by a backtracking matcher with the priorities of ECMAScript         *)
(* (greedy before shorter, lazy before longer, left alternative first).    *)
(***************************************************************************)
EXTENDS Integers, Sequences, FiniteSets, TLC

VARIABLES
    \* ---- GeminiPrivacyRule (one rule instance, one evaluate call at a time)
    enabled,        \* this.config.enabled
    pc,             \* position of the evaluate call
    content,        \* the content argument of evaluate
    lines,          \* scanWithGemini: content.split('\n')
    idx,            \* scanWithGemini: the loop variable i
    found,          \* scanWithGemini: the violations accumulated so far
    returned,       \* what evaluate returned (a list of findings)
    calls,          \* history: the generateContent invocations, one record per call
    \* ---- web server, one POST /scan request at a time
    spc,            \* position of the request handler
    files,          \* req.files: the original names of the uploads
    aiEnabled,      \* the constant aiEnabled of line 49
    geminiEnabled,  \* what the handler passed to engine.setGeminiEnabled
    temp,           \* the names of the files in the temp directory
    violations,     \* the raw strings engine.run resolved with
    response,       \* the status and the body the handler answered with
    \* ---- web server, two POST /scan requests at a time
    handlers,       \* per request: position, filePaths, what engine.run read, what was unlinked
    tempDir,        \* the temp directory: per file name, the request whose upload is there
    \* ---- ConfigManager instances
    heap,           \* the objects that hold the claudeSonnet, hardcodedRules and scanning fields
    managers,       \* per ConfigManager: this.config, a record of references into the heap
    env             \* process.env

gvars == <<enabled, pc, content, lines, idx, found, returned, calls>>
svars == <<spc, files, aiEnabled, geminiEnabled, temp, violations, response>>
rvars == <<handlers, tempDir>>
kvars == <<heap, managers, env>>
vars == <<enabled, pc, content, lines, idx, found, returned, calls,
          spc, files, aiEnabled, geminiEnabled, temp, violations, response,
          handlers, tempDir, heap, managers, env>>

(***************************************************************************)
(* Characters and strings                                                  *)
(***************************************************************************)
LowerLetters == "abcdefghijklmnopqrstuvwxyz"
UpperLetters == "ABCDEFGHIJKLMNOPQRSTUVWXYZ"
Digits == "0123456789"

Ch(s, i) == SubSeq(s, i, i)

Chars(s) == {Ch(s, i) : i \in 1..Len(s)}

\* \s of the regular expressions and the white space String.prototype.trim
\* strips, restricted to the characters the texts of the model are made of
WhiteSpace == {" ", "\t", "\n", "\r"}

\* \d
DigitChars == Chars(Digits)

\* \w
WordChars == Chars(LowerLetters) \cup Chars(UpperLetters) \cup DigitChars \cup {"_"}

IndexIn(alphabet, c) == CHOOSE i \in 1..Len(alphabet) : Ch(alphabet, i) = c

RECURSIVE MapChars(_, _, _)
MapChars(s, from, to) ==
    IF Len(s) = 0 THEN ""
    ELSE IF Len(s) = 1
         THEN (IF s \in Chars(from) THEN Ch(to, IndexIn(from, s)) ELSE s)
         ELSE LET h == Len(s) \div 2
              IN MapChars(SubSeq(s, 1, h), from, to)
                     \o MapChars(SubSeq(s, h + 1, Len(s)), from, to)

toUpperCase(s) == MapChars(s, LowerLetters, UpperLetters)

toLowerCase(s) == MapChars(s, UpperLetters, LowerLetters)

trim(s) ==
    LET keep == {i \in 1..Len(s) : Ch(s, i) \notin WhiteSpace}
    IN IF keep = {} THEN ""
       ELSE SubSeq(s, CHOOSE i \in keep : \A j \in keep : i <= j,
                      CHOOSE i \in keep : \A j \in keep : j <= i)

StartsAt(s, i, lit) ==
    /\ i + Len(lit) <= Len(s)
    /\ SubSeq(s, i + 1, i + Len(lit)) = lit

includes(s, lit) == \E i \in 0..Len(s) : StartsAt(s, i, lit)

(***************************************************************************)
(* Regular expressions                                                     *)
(***************************************************************************)
Lit(str) == [op |-> "lit", str |-> str]
Cls(set) == [op |-> "cls", set |-> set]              \* [...]
NCls(set) == [op |-> "ncls", set |-> set]            \* [^...]
Cat(parts) == [op |-> "cat", parts |-> parts]
Alt(parts) == [op |-> "alt", parts |-> parts]        \* a|b|c
Star(r) == [op |-> "star", r |-> r]                  \* r*
\* r* for an r that matches in one way at most from any offset and holds no
\* group: the iterations are counted without nesting one in the other
StarChain(r) == [op |-> "chain", r |-> r]
StarLazy(r) == [op |-> "lazy", r |-> r]              \* r*?
Plus(r) == Cat(<<r, Star(r)>>)                       \* r+
PlusLazy(r) == Cat(<<r, StarLazy(r)>>)               \* r+?
Opt(r) == [op |-> "opt", r |-> r]                    \* r?
Grp(n, r) == [op |-> "grp", n |-> n, r |-> r]        \* capturing group n
NotAhead(r) == [op |-> "nla", r |-> r]               \* (?!r)
Bol == [op |-> "bol"]                                \* ^ without the m flag
Eol == [op |-> "eol"]                                \* $ without the m flag

NoMatch == [ok |-> FALSE, start |-> 0, end |-> 0, caps |-> <<>>]

NoCaps(n) == [g \in 1..n |-> [def |-> FALSE, from |-> 0, str |-> ""]]

IsClass(r) == r.op \in {"cls", "ncls"}

ClassHas(r, c) == IF r.op = "cls" THEN c \in r.set ELSE c \notin r.set

\* the number of characters from offset i on that belong to class r
RunLength(r, s, i) ==
    LET stop == {j \in (i + 1)..Len(s) : ~ClassHas(r, Ch(s, j))}
    IN IF stop = {} THEN Len(s) - i
       ELSE (CHOOSE j \in stop : \A k \in stop : j <= k) - 1 - i

\* Match(todo, s, i, caps): the first way, in the priority order of a
\* backtracking matcher, to match the expressions of todo one after the
\* other from offset i of s (i characters are consumed so far).
RECURSIVE Match(_, _, _, _)
RECURSIVE TryAlt(_, _, _, _, _)
RECURSIVE ChainEnds(_, _, _, _)

Least(set) == CHOOSE k \in set : \A j \in set : k <= j
Greatest(set) == CHOOSE k \in set : \A j \in set : j <= k

\* the rest matched after one of the offsets of ends, the last offset tried
\* first (a greedy repetition gives back one iteration at a time)
TryDown(ends, rest, s, caps) ==
    LET first == Match(rest, s, ends[Len(ends)], caps)
        others == {k \in 1..(Len(ends) - 1) : Match(rest, s, ends[k], caps).ok}
    IN IF first.ok THEN first
       ELSE IF others = {} THEN NoMatch
       ELSE Match(rest, s, ends[Greatest(others)], caps)

\* the same, the first offset tried first (a lazy repetition takes one more
\* iteration at a time)
TryUp(ends, rest, s, caps) ==
    LET first == Match(rest, s, ends[1], caps)
        others == {k \in 2..Len(ends) : Match(rest, s, ends[k], caps).ok}
    IN IF first.ok THEN first
       ELSE IF others = {} THEN NoMatch
       ELSE Match(rest, s, ends[Least(others)], caps)

\* the offsets after 0, 1, 2, ... characters of the run of class r from offset i
RunEnds(r, s, i) == [k \in 1..(RunLength(r, s, i) + 1) |-> i + k - 1]

\* the offsets after 0, 1, 2, ... iterations of r from offset i, for an r that
\* matches in one way at most from any offset and holds no group
ChainEnds(r, s, i, acc) ==
    LET m == Match(<<r>>, s, i, <<>>)
    IN IF m.ok /\ m.end > i THEN ChainEnds(r, s, m.end, Append(acc, m.end)) ELSE acc

TryAlt(parts, rest, s, i, caps) ==
    IF parts = <<>> THEN NoMatch
    ELSE LET m == Match(<<Head(parts)>> \o rest, s, i, caps)
         IN IF m.ok THEN m ELSE TryAlt(Tail(parts), rest, s, i, caps)

Match(todo, s, i, caps) ==
    IF todo = <<>> THEN [ok |-> TRUE, start |-> 0, end |-> i, caps |-> caps]
    ELSE
    LET r == Head(todo)
        rest == Tail(todo)
    IN CASE r.op = "lit" ->
              IF StartsAt(s, i, r.str) THEN Match(rest, s, i + Len(r.str), caps)
              ELSE NoMatch
         [] r.op \in {"cls", "ncls"} ->
              IF i < Len(s) /\ ClassHas(r, Ch(s, i + 1))
              THEN Match(rest, s, i + 1, caps)
              ELSE NoMatch
         [] r.op = "cat" -> Match(r.parts \o rest, s, i, caps)
         [] r.op = "alt" -> TryAlt(r.parts, rest, s, i, caps)
         [] r.op = "star" ->
              IF IsClass(r.r) THEN TryDown(RunEnds(r.r, s, i), rest, s, caps)
              ELSE LET m == Match(<<r.r, [op |-> "adv", at |-> i], r>> \o rest,
                                  s, i, caps)
                   IN IF m.ok THEN m ELSE Match(rest, s, i, caps)
         [] r.op = "chain" -> TryDown(ChainEnds(r.r, s, i, <<i>>), rest, s, caps)
         [] r.op = "lazy" ->
              IF IsClass(r.r) THEN TryUp(RunEnds(r.r, s, i), rest, s, caps)
              ELSE LET m == Match(rest, s, i, caps)
                   IN IF m.ok THEN m
                      ELSE Match(<<r.r, [op |-> "adv", at |-> i], r>> \o rest,
                                 s, i, caps)
         [] r.op = "adv" ->       \* an iteration that matched nothing is refused
              IF i > r.at THEN Match(rest, s, i, caps) ELSE NoMatch
         [] r.op = "opt" ->
              LET m == Match(<<r.r, [op |-> "adv", at |-> i]>> \o rest, s, i, caps)
              IN IF m.ok THEN m ELSE Match(rest, s, i, caps)
         [] r.op = "grp" ->
              Match(<<[op |-> "open", n |-> r.n], r.r, [op |-> "close", n |-> r.n]>>
                        \o rest, s, i, caps)
         [] r.op = "open" ->
              Match(rest, s, i, [caps EXCEPT ![r.n].from = i])
         [] r.op = "close" ->
              Match(rest, s, i,
                    [caps EXCEPT ![r.n] = [def |-> TRUE, from |-> caps[r.n].from,
                                           str |-> SubSeq(s, caps[r.n].from + 1, i)]])
         [] r.op = "nla" ->
              IF Match(<<r.r>>, s, i, caps).ok THEN NoMatch
              ELSE Match(rest, s, i, caps)
         [] r.op = "bol" -> IF i = 0 THEN Match(rest, s, i, caps) ELSE NoMatch
         [] r.op = "eol" -> IF i = Len(s) THEN Match(rest, s, i, caps) ELSE NoMatch

\* RegExp.prototype.exec from offset from: the leftmost match
ExecFrom(re, ngroups, s, from) ==
    LET starts == {st \in from..Len(s) : Match(<<re>>, s, st, NoCaps(ngroups)).ok}
    IN IF starts = {} THEN NoMatch
       ELSE [Match(<<re>>, s, Least(starts), NoCaps(ngroups))
                 EXCEPT !.start = Least(starts)]

\* String.prototype.match with a regular expression without the g flag
StrMatch(s, re, ngroups) == ExecFrom(re, ngroups, s, 0)

\* the successive matches of a regular expression with the g flag
RECURSIVE MatchAll(_, _, _, _)
MatchAll(s, re, ngroups, from) ==
    LET m == ExecFrom(re, ngroups, s, from)
    IN IF ~m.ok THEN <<>>
       ELSE <<m>> \o MatchAll(s, re, ngroups,
                              IF m.end = m.start THEN m.end + 1 ELSE m.end)

\* the text with each match replaced by the replacement of the same rank
RECURSIVE Splice(_, _, _, _, _)
Splice(s, ms, repl, k, from) ==
    IF k > Len(ms) THEN SubSeq(s, from + 1, Len(s))
    ELSE SubSeq(s, from + 1, ms[k].start) \o repl[k]
             \o Splice(s, ms, repl, k + 1, ms[k].end)

\* String.prototype.replace with a g-flagged expression and a constant replacement
ReplaceAll(s, re, with) ==
    LET ms == MatchAll(s, re, 0, 0)
    IN Splice(s, ms, [k \in 1..Len(ms) |-> with], 1, 0)

(***************************************************************************)
(* Numbers                                                                 *)
(***************************************************************************)
\* a JavaScript number: an integer or NaN
Num(n) == [nan |-> FALSE, v |-> n]
NaN == [nan |-> TRUE, v |-> 0]

NumAdd(a, b) == IF a.nan \/ b.nan THEN NaN ELSE Num(a.v + b.v)
NumSub(a, b) == IF a.nan \/ b.nan THEN NaN ELSE Num(a.v - b.v)

RECURSIVE DigitsValue(_)
DigitsValue(s) ==
    IF Len(s) = 0 THEN 0
    ELSE 10 * DigitsValue(SubSeq(s, 1, Len(s) - 1)) + (IndexIn(Digits, Ch(s, Len(s))) - 1)

\* parseInt(s): leading white space skipped, an optional sign, then the longest
\* run of decimal digits; NaN when there is no digit
parseInt(s) ==
    LET lead == RunLength(Cls(WhiteSpace), s, 0)
        neg == StartsAt(s, lead, "-")
        at == IF neg \/ StartsAt(s, lead, "+") THEN lead + 1 ELSE lead
        n == RunLength(Cls(DigitChars), s, at)
    IN IF n = 0 THEN NaN
       ELSE LET v == DigitsValue(SubSeq(s, at + 1, at + n))
            IN Num(IF neg THEN 0 - v ELSE v)

(***************************************************************************)
(* The violation normalizer: POST /scan, structuredViolations              *)
(***************************************************************************)
Ws == Cls(WhiteSpace)                   \* \s
Digit == Cls(DigitChars)                \* \d
AnyChar == NCls({})                         \* [\s\S], and . under the s flag
Dot == NCls({"\n", "\r"})               \* . without the s flag
NotNl == NCls({"\n"})                   \* [^\n]

\* [^\n]+(?:\n(?!\n)[^\n]+)*
Paragraph ==
    Cat(<<Plus(NotNl), Star(Cat(<<Lit("\n"), NotAhead(Lit("\n")), Plus(NotNl)>>))>>)

\* /^([^:]+):\s*([^\n]+(?:\n(?!\n)[^\n]+)*)
\*   (?:\n\nSuggested Fix:\s*([^\n]+(?:\n(?!\n)[^\n]+)*))?(?:\n\nSeverity:\s*([^\n]+))?/s
AiRegex ==
    Cat(<<Bol, Grp(1, Plus(NCls({":"}))), Lit(":"), Star(Ws), Grp(2, Paragraph),
          Opt(Cat(<<Lit("\n\nSuggested Fix:"), Star(Ws), Grp(3, Paragraph)>>)),
          Opt(Cat(<<Lit("\n\nSeverity:"), Star(Ws), Grp(4, Plus(NotNl))>>))>>)

\* /^(\d+)\s*[--]\s*([^:]+):?\s*(.*?)(?:\(found:\s*"([^"]+)"\))?
\*   \nDescription:\s*([\s\S]*?)\nFix:\s*([\s\S]*?)\nSeverity:\s*(HIGH|MEDIUM|LOW)/
\* (the class of the two dashes holds the ASCII hyphen alone: the texts of the
\* model are ASCII)
HardcodedRegex ==
    Cat(<<Bol, Grp(1, Plus(Digit)), Star(Ws), Cls({"-"}), Star(Ws),
          Grp(2, Plus(NCls({":"}))), Opt(Lit(":")), Star(Ws), Grp(3, StarLazy(Dot)),
          Opt(Cat(<<Lit("(found:"), Star(Ws), Lit("\""), Grp(4, Plus(NCls({"\""}))),
                    Lit("\")")>>)),
          Lit("\nDescription:"), Star(Ws), Grp(5, StarLazy(AnyChar)),
          Lit("\nFix:"), Star(Ws), Grp(6, StarLazy(AnyChar)),
          Lit("\nSeverity:"), Star(Ws),
          Grp(7, Alt(<<Lit("HIGH"), Lit("MEDIUM"), Lit("LOW")>>))>>)

\* the expression of aiMatch with \n+ in place of \n\n
AltAiRegex ==
    Cat(<<Bol, Grp(1, Plus(NCls({":"}))), Lit(":"), Star(Ws), Grp(2, Paragraph),
          Opt(Cat(<<Plus(Cls({"\n"})), Lit("Suggested Fix:"), Star(Ws),
                    Grp(3, Paragraph)>>)),
          Opt(Cat(<<Plus(Cls({"\n"})), Lit("Severity:"), Star(Ws),
                    Grp(4, Plus(NotNl))>>))>>)

PathChar == Cls(WordChars \cup {"/", ".", "-"})     \* [\/\w\.-]

\* /([\/\w\.-]+\.(?:js|ts|py|java|go|cs|php|rb|swift|kt|rs|scala)):(\d+)/
FileRegex ==
    Cat(<<Grp(1, Cat(<<Plus(PathChar), Lit("."),
                       Alt(<<Lit("js"), Lit("ts"), Lit("py"), Lit("java"), Lit("go"),
                             Lit("cs"), Lit("php"), Lit("rb"), Lit("swift"),
                             Lit("kt"), Lit("rs"), Lit("scala")>>)>>)),
          Lit(":"), Grp(2, Plus(Digit))>>)

\* /^[\[]([^\]]+)\]\s+(.+?):(\d+)\s+-\s+([^-]+?)(?:\s+-\s+)?
\*   (?:.*?\(found:\s*"([^"]+)"([\s\S]*?)?\))?/s
LegacyRegex ==
    Cat(<<Bol, Lit("["), Grp(1, Plus(NCls({"]"}))), Lit("]"), Plus(Ws),
          Grp(2, PlusLazy(AnyChar)), Lit(":"), Grp(3, Plus(Digit)),
          Plus(Ws), Lit("-"), Plus(Ws), Grp(4, PlusLazy(NCls({"-"}))),
          Opt(Cat(<<Plus(Ws), Lit("-"), Plus(Ws)>>)),
          Opt(Cat(<<StarLazy(AnyChar), Lit("(found:"), Star(Ws), Lit("\""),
                    Grp(5, Plus(NCls({"\""}))), Lit("\""),
                    Opt(Grp(6, StarLazy(AnyChar))), Lit(")")>>))>>)

\* /Description:\s*([\s\S]*?)(?:\n|$)/
DescRegex ==
    Cat(<<Lit("Description:"), Star(Ws), Grp(1, StarLazy(AnyChar)), Alt(<<Lit("\n"), Eol>>)>>)

\* /Fix:\s*([\s\S]*?)(?:\n|$)/
FixRegex ==
    Cat(<<Lit("Fix:"), Star(Ws), Grp(1, StarLazy(AnyChar)), Alt(<<Lit("\n"), Eol>>)>>)

\* /([\/\w\.-]+\.js):(\d+)/
JsFileRegex ==
    Cat(<<Grp(1, Cat(<<Plus(PathChar), Lit(".js")>>)), Lit(":"), Grp(2, Plus(Digit))>>)

\* /[\)"\s]+$/g
SeverityTailRegex == Cat(<<Plus(Cls({")", "\""} \cup WhiteSpace)), Eol>>)

\* a capture as the || operator sees it: undefined and "" are both falsy
Truthy(cap) == cap.def /\ cap.str # ""

\* ["HIGH", "MEDIUM", "LOW"]
LevelSet == {"HIGH", "MEDIUM", "LOW"}

\* a variant of cleanSeverity without the test of line 123
cleanSeverity_NoDefault(severityRaw) ==
    LET raw == IF Truthy(severityRaw) THEN severityRaw.str ELSE "MEDIUM"
    IN toUpperCase(trim(ReplaceAll(raw, SeverityTailRegex, "")))

\* cleanSeverity; its argument is a capture, undefined when the group took no part
cleanSeverity(severityRaw) ==
    LET raw == IF Truthy(severityRaw) THEN severityRaw.str ELSE "MEDIUM"
        s == toUpperCase(trim(ReplaceAll(raw, SeverityTailRegex, "")))
    IN IF s \notin LevelSet THEN "MEDIUM" ELSE s

\* the test  type && type.toLowerCase().includes(word)
Mentions(text, word) == text # "" /\ includes(toLowerCase(text), word)

cleanFix(fixRaw, type, description) ==
    LET f == trim(IF Truthy(fixRaw) THEN fixRaw.str ELSE "")
    IN IF f = "" \/ toUpperCase(f) = "N/A"
       THEN CASE Mentions(type, "email") ->
                   "Remove hardcoded email addresses and use configuration or environment variables."
              [] Mentions(type, "phone") ->
                   "Remove hardcoded phone numbers and use configuration or environment variables."
              [] Mentions(type, "api key") \/ Mentions(description, "api key") ->
                   "Move API keys to a secure configuration and rotate them immediately."
              [] Mentions(type, "consent") ->
                   "Implement consent validation before processing user data."
              [] Mentions(type, "localstorage") ->
                   "Encrypt the data before storing it in localStorage, or use a more secure storage mechanism."
              [] Mentions(type, "ssn") ->
                   "Remove SSN collection or justify its necessity and obtain explicit consent."
              [] Mentions(type, "retention") ->
                   "Implement an expiration mechanism for data stored in localStorage."
              [] OTHER -> "Review and fix the privacy issue according to best practices."
       ELSE f

\* a string passed where the code may also pass an undefined capture
Str(x) == [def |-> TRUE, from |-> 0, str |-> x]

\* cap || alt
OrElse(cap, alt) == IF Truthy(cap) THEN cap.str ELSE alt

\* a property the object literal of a branch does not have
Absent == "<absent>"

\* the record of the aiMatch and altAiMatch branches
AiRecord(violation, m) ==
    LET type == trim(m.caps[1].str)
        description == trim(m.caps[2].str)
        fileMatch == StrMatch(violation, FileRegex, 2)
    IN [language |-> "AI Detected",
        file |-> IF fileMatch.ok THEN fileMatch.caps[1].str ELSE "Unknown",
        line |-> IF fileMatch.ok THEN parseInt(fileMatch.caps[2].str) ELSE Num(0),
        type |-> type,
        finding |-> description,
        description |-> description,
        fix |-> cleanFix(m.caps[3], type, description),
        severity |-> cleanSeverity(m.caps[4])]

HardcodedRecord(m) ==
    [language |-> Absent,
     file |-> "Unknown",
     line |-> parseInt(m.caps[1].str),
     type |-> trim(m.caps[2].str),
     finding |-> IF Truthy(m.caps[4]) THEN m.caps[4].str ELSE OrElse(m.caps[3], "N/A"),
     description |-> OrElse(m.caps[5], "N/A"),
     fix |-> cleanFix(m.caps[6], m.caps[2].str, m.caps[5].str),
     severity |-> cleanSeverity(m.caps[7])]

LegacyRecord(m) ==
    LET finding == IF Truthy(m.caps[5]) THEN trim(m.caps[5].str) ELSE "N/A"
        extra == IF Truthy(m.caps[6]) THEN trim(m.caps[6].str) ELSE ""
        descMatch == StrMatch(extra, DescRegex, 1)
        fixMatch == StrMatch(extra, FixRegex, 1)
        description == IF descMatch.ok /\ trim(descMatch.caps[1].str) # ""
                       THEN trim(descMatch.caps[1].str) ELSE "N/A"
        fix == IF fixMatch.ok /\ trim(fixMatch.caps[1].str) # ""
               THEN trim(fixMatch.caps[1].str) ELSE "N/A"
    IN [language |-> m.caps[1].str,
        file |-> m.caps[2].str,
        line |-> parseInt(m.caps[3].str),
        type |-> trim(m.caps[4].str),
        finding |-> finding,
        description |-> description,
        fix |-> cleanFix(Str(fix), m.caps[4].str, description),
        severity |-> "MEDIUM"]

JsFileRecord(violation, m) ==
    [language |-> "Unknown",
     file |-> m.caps[1].str,
     line |-> parseInt(m.caps[2].str),
     type |-> "Unknown",
     finding |-> "N/A",
     description |-> violation,
     fix |-> "N/A",
     severity |-> "MEDIUM"]

\* a variant of FallbackRecord that shows the placeholder for the description
FallbackRecord_NoText(violation) ==
    [language |-> "Unknown",
     file |-> "Unknown",
     line |-> Num(0),
     type |-> "Unknown",
     finding |-> "N/A",
     description |-> "N/A",
     fix |-> "N/A",
     severity |-> "MEDIUM"]

FallbackRecord(violation) ==
    [language |-> "Unknown",
     file |-> "Unknown",
     line |-> Num(0),
     type |-> "Unknown",
     finding |-> "N/A",
     description |-> violation,
     fix |-> "N/A",
     severity |-> "MEDIUM"]

\* the branch of the cascade that takes a raw text: the first expression,
\* in the order of the code, that matches it
Branch(violation) ==
    CASE StrMatch(violation, AiRegex, 4).ok -> "ai"
      [] StrMatch(violation, HardcodedRegex, 7).ok -> "hardcoded"
      [] StrMatch(violation, AltAiRegex, 4).ok -> "altAi"
      [] StrMatch(violation, LegacyRegex, 6).ok -> "legacy"
      [] StrMatch(violation, JsFileRegex, 2).ok -> "jsFile"
      [] OTHER -> "fallback"

\* the callback of violations.map
Normalize(violation) ==
    LET aiMatch == StrMatch(violation, AiRegex, 4)
        hardcodedMatch == StrMatch(violation, HardcodedRegex, 7)
        altAiMatch == StrMatch(violation, AltAiRegex, 4)
        match == StrMatch(violation, LegacyRegex, 6)
        jsMatch == StrMatch(violation, JsFileRegex, 2)
    IN IF aiMatch.ok THEN AiRecord(violation, aiMatch)
       ELSE IF hardcodedMatch.ok THEN HardcodedRecord(hardcodedMatch)
       ELSE IF altAiMatch.ok THEN AiRecord(violation, altAiMatch)
       ELSE IF match.ok THEN LegacyRecord(match)
       ELSE IF jsMatch.ok THEN JsFileRecord(violation, jsMatch)
       ELSE FallbackRecord(violation)

\* severityOrder[x.severity?.toUpperCase()] || 0
SeverityRank(v) ==
    LET s == toUpperCase(v.severity)
    IN CASE s = "HIGH" -> 3 [] s = "MEDIUM" -> 2 [] s = "LOW" -> 1 [] OTHER -> 0

\* a variant of Compare that puts the lower severity first
Compare_Ascending(a, b) == SeverityRank(a) - SeverityRank(b)

\* the comparator of the sort: negative when a goes before b
Compare(a, b) == SeverityRank(b) - SeverityRank(a)

\* a variant of InsertSorted that puts v before the elements it ties with
InsertSorted_BeforeTies(sorted, v) ==
    LET later == {k \in 1..Len(sorted) : Compare(sorted[k], v) >= 0}
        at == IF later = {} THEN Len(sorted) + 1
              ELSE CHOOSE k \in later : \A j \in later : k <= j
    IN SubSeq(sorted, 1, at - 1) \o <<v>> \o SubSeq(sorted, at, Len(sorted))

\* v put into the sorted list after every element that does not go after it
InsertSorted(sorted, v) ==
    LET later == {k \in 1..Len(sorted) : Compare(sorted[k], v) > 0}
        at == IF later = {} THEN Len(sorted) + 1
              ELSE CHOOSE k \in later : \A j \in later : k <= j
    IN SubSeq(sorted, 1, at - 1) \o <<v>> \o SubSeq(sorted, at, Len(sorted))

\* Array.prototype.sort with the comparator: a stable sort (ECMAScript 2019,
\* the Node.js 20 of the Dockerfile)
RECURSIVE SortViolations(_)
SortViolations(list) ==
    IF list = <<>> THEN <<>>
    ELSE InsertSorted(SortViolations(SubSeq(list, 1, Len(list) - 1)), list[Len(list)])

\* the raw strings a modelled engine.run resolves with are lists of these
AiText == "Secrets: key in code\n\nSuggested Fix: use env\n\nSeverity: HIGH"

UrgentText == "Logging: b\n\nSuggested Fix: N/A\n\nSeverity: urgent"

TailText == "Email: d\n\nSeverity: high)\""

BareText == "Api key: d"

LowText == "Ssn: d\n\nSeverity: low"

HardcodedText == "12 - Email: x\nDescription: d\nFix: f\nSeverity: HIGH"

LegacyText == "[JavaScript] src/app.js:12 - HardcodedEmail (found: \"a@b.c\")"

JsFileText == ":see app.js:3"

PlainText == "no structure"

\* the AI format without a fix: the word email is in the description alone
DescEmailText == "Logging: user email\n\nSuggested Fix: N/A"

\* the AI format with a level in mixed case, followed by a full stop
DottedText == "Leak: d\n\nSuggested Fix: mask it\n\nSeverity: High."

\* the match text of a finding of the LLM-backed rule whose type holds a colon
ColonText == "PII: email: d\n\nSuggested Fix: f\n\nSeverity: LOW"

RawTexts ==
    {AiText, UrgentText, TailText, BareText, LowText, HardcodedText, LegacyText,
     JsFileText, PlainText, DescEmailText, DottedText, ColonText}

\* the callback of violations.map on every modelled raw string
Normalized == [t \in RawTexts |-> Normalize(t)]

\* a variant of MapNormalize that leaves out the strings no expression matches
MapNormalize_DropUnmatched(list) ==
    LET kept == SelectSeq(list, LAMBDA t : Normalized[t].file # "Unknown"
                                             \/ Normalized[t].type # "Unknown")
    IN [k \in 1..Len(kept) |-> Normalized[kept[k]]]

\* violations.map(violation => ...)
MapNormalize(list) == [k \in 1..Len(list) |-> Normalized[list[k]]]

(***************************************************************************)
(* JavaScript values and JSON.parse                                        *)
(*                                                                         *)
(* A value is a record [t, v]: t is "undef", "null", "bool", "num", "str", *)
(* "arr" (v a sequence of values) or "obj" (v a sequence of members        *)
(* [k, v], in source order).  The numbers of the texts of the model are    *)
(* integers: the parser reads -?digits and no fraction or exponent.        *)
(***************************************************************************)
Undefined == [t |-> "undef", v |-> ""]
Null == [t |-> "null", v |-> ""]
JBool(b) == [t |-> "bool", v |-> b]
JNum(n) == [t |-> "num", v |-> n]          \* n is Num(k) or NaN
JStr(x) == [t |-> "str", v |-> x]
JArr(elems) == [t |-> "arr", v |-> elems]
JObj(members) == [t |-> "obj", v |-> members]

ParseFail == [ok |-> FALSE, val |-> Undefined, end |-> 0]

JsonSpace == Cls({" ", "\t", "\n", "\r"})

SkipSpace(s, i) == i + RunLength(JsonSpace, s, i)

\* characters a JSON string holds unescaped: no quote, backslash or control
PlainChar == NCls({"\"", "\\", "\n", "\t", "\r"})

Escapes == [e \in {"\"", "\\", "/", "n", "t", "r"} |->
              CASE e = "n" -> "\n" [] e = "t" -> "\t" [] e = "r" -> "\r" [] OTHER -> e]

\* the rest of a string literal from offset i, just after its opening quote
RECURSIVE ParseChars(_, _, _)
ParseChars(s, i, acc) ==
    LET n == RunLength(PlainChar, s, i)
        j == i + n
        text == acc \o SubSeq(s, i + 1, j)
    IN IF j >= Len(s) THEN ParseFail
       ELSE IF Ch(s, j + 1) = "\"" THEN [ok |-> TRUE, val |-> JStr(text), end |-> j + 1]
       ELSE IF Ch(s, j + 1) = "\\" /\ j + 1 < Len(s) /\ Ch(s, j + 2) \in DOMAIN Escapes
            THEN ParseChars(s, j + 2, text \o Escapes[Ch(s, j + 2)])
       ELSE ParseFail

ParseNumber(s, i) ==
    LET neg == StartsAt(s, i, "-")
        at == IF neg THEN i + 1 ELSE i
        n == RunLength(Cls(DigitChars), s, at)
        v == DigitsValue(SubSeq(s, at + 1, at + n))
    IN IF n = 0 \/ (n > 1 /\ Ch(s, at + 1) = "0") THEN ParseFail
       ELSE [ok |-> TRUE, val |-> JNum(Num(IF neg THEN 0 - v ELSE v)), end |-> at + n]

RECURSIVE ParseValue(_, _)
RECURSIVE ParseElements(_, _, _)
RECURSIVE ParseMembers(_, _, _)

\* the elements of an array from offset i, after "[" or after a comma
ParseElements(s, i, acc) ==
    LET e == ParseValue(s, i)
        j == SkipSpace(s, e.end)
    IN IF ~e.ok THEN ParseFail
       ELSE IF StartsAt(s, j, ",") THEN ParseElements(s, j + 1, Append(acc, e.val))
       ELSE IF StartsAt(s, j, "]")
            THEN [ok |-> TRUE, val |-> JArr(Append(acc, e.val)), end |-> j + 1]
       ELSE ParseFail

\* the members of an object from offset i, after "{" or after a comma
ParseMembers(s, i, acc) ==
    LET k0 == SkipSpace(s, i)
        key == IF StartsAt(s, k0, "\"") THEN ParseChars(s, k0 + 1, "") ELSE ParseFail
        c == SkipSpace(s, key.end)
        e == IF key.ok /\ StartsAt(s, c, ":") THEN ParseValue(s, c + 1) ELSE ParseFail
        j == SkipSpace(s, e.end)
        members == Append(acc, [k |-> key.val.v, v |-> e.val])
    IN IF ~e.ok THEN ParseFail
       ELSE IF StartsAt(s, j, ",") THEN ParseMembers(s, j + 1, members)
       ELSE IF StartsAt(s, j, "}")
            THEN [ok |-> TRUE, val |-> JObj(members), end |-> j + 1]
       ELSE ParseFail

ParseValue(s, i0) ==
    LET i == SkipSpace(s, i0)
    IN IF StartsAt(s, i, "[")
       THEN (IF StartsAt(s, SkipSpace(s, i + 1), "]")
             THEN [ok |-> TRUE, val |-> JArr(<<>>), end |-> SkipSpace(s, i + 1) + 1]
             ELSE ParseElements(s, i + 1, <<>>))
       ELSE IF StartsAt(s, i, "{")
       THEN (IF StartsAt(s, SkipSpace(s, i + 1), "}")
             THEN [ok |-> TRUE, val |-> JObj(<<>>), end |-> SkipSpace(s, i + 1) + 1]
             ELSE ParseMembers(s, i + 1, <<>>))
       ELSE IF StartsAt(s, i, "\"") THEN ParseChars(s, i + 1, "")
       ELSE IF StartsAt(s, i, "true")
            THEN [ok |-> TRUE, val |-> JBool(TRUE), end |-> i + 4]
       ELSE IF StartsAt(s, i, "false")
            THEN [ok |-> TRUE, val |-> JBool(FALSE), end |-> i + 5]
       ELSE IF StartsAt(s, i, "null") THEN [ok |-> TRUE, val |-> Null, end |-> i + 4]
       ELSE ParseNumber(s, i)

\* JSON.parse: one value, with nothing but white space after it; ok is FALSE
\* where JSON.parse throws a SyntaxError
JsonParse(s) ==
    LET r == ParseValue(s, 0)
    IN IF r.ok /\ SkipSpace(s, r.end) = Len(s) THEN r ELSE ParseFail

\* obj.key: the last member of that name; undefined for a value that is not
\* an object (numbers, strings, booleans and arrays have no such property)
GetProp(val, key) ==
    IF val.t # "obj" THEN Undefined
    ELSE LET hits == {k \in 1..Len(val.v) : val.v[k].k = key}
         IN IF hits = {} THEN Undefined
            ELSE val.v[CHOOSE k \in hits : \A j \in hits : j <= k].v

\* the tests of || and of if
ToBoolean(val) ==
    CASE val.t \in {"undef", "null"} -> FALSE
      [] val.t = "bool" -> val.v
      [] val.t = "num" -> ~val.v.nan /\ val.v.v # 0
      [] val.t = "str" -> val.v # ""
      [] OTHER -> TRUE

\* a || b
JOr(a, b) == IF ToBoolean(a) THEN a ELSE b

RECURSIVE NatToStr(_)
NatToStr(n) ==
    IF n < 10 THEN Ch(Digits, n + 1)
    ELSE NatToStr(n \div 10) \o Ch(Digits, (n % 10) + 1)

NumToStr(n) ==
    IF n.nan THEN "NaN" ELSE IF n.v < 0 THEN "-" \o NatToStr(0 - n.v) ELSE NatToStr(n.v)

\* String(val), and val in a template literal
RECURSIVE ToStr(_)
RECURSIVE JoinValues(_, _)
JoinValues(elems, k) ==
    IF k > Len(elems) THEN ""
    ELSE (IF elems[k].t \in {"undef", "null"} THEN "" ELSE ToStr(elems[k]))
             \o (IF k < Len(elems) THEN "," ELSE "") \o JoinValues(elems, k + 1)

ToStr(val) ==
    CASE val.t = "undef" -> "undefined"
      [] val.t = "null" -> "null"
      [] val.t = "bool" -> (IF val.v THEN "true" ELSE "false")
      [] val.t = "num" -> NumToStr(val.v)
      [] val.t = "str" -> val.v
      [] val.t = "arr" -> JoinValues(val.v, 1)
      [] OTHER -> "[object Object]"

\* Number(text): a decimal integer with white space around it, 0 for the
\* empty text, NaN for anything else
StrToNumber(text) ==
    LET t == trim(text)
        neg == StartsAt(t, 0, "-")
        at == IF neg \/ StartsAt(t, 0, "+") THEN 1 ELSE 0
        n == RunLength(Cls(DigitChars), t, at)
    IN IF t = "" THEN Num(0)
       ELSE IF n = 0 \/ at + n # Len(t) THEN NaN
       ELSE parseInt(t)

\* the conversion the operator - applies to an operand
ToNumber(val) ==
    CASE val.t = "undef" -> NaN
      [] val.t = "null" -> Num(0)
      [] val.t = "bool" -> (IF val.v THEN Num(1) ELSE Num(0))
      [] val.t = "num" -> val.v
      [] val.t = "str" -> StrToNumber(val.v)
      [] val.t = "arr" -> StrToNumber(ToStr(val))
      [] OTHER -> NaN

(***************************************************************************)
(* GeminiPrivacyRule.parseGeminiResponse                                   *)
(***************************************************************************)
\* String.prototype.split('\n')
RECURSIVE Split(_)
Split(s) ==
    IF Len(s) <= 1 THEN (IF s = "\n" THEN <<"", "">> ELSE <<s>>)
    ELSE LET h == Len(s) \div 2
             a == Split(SubSeq(s, 1, h))
             b == Split(SubSeq(s, h + 1, Len(s)))
         IN SubSeq(a, 1, Len(a) - 1) \o <<a[Len(a)] \o b[1]>> \o Tail(b)

\* list.slice(from, to).join('\n'), from and to counted from 0
RECURSIVE Join(_, _, _)
Join(list, from, to) ==
    IF to <= from THEN ""
    ELSE IF to = from + 1 THEN list[to]
    ELSE LET h == (from + to) \div 2
         IN Join(list, from, h) \o "\n" \o Join(list, h, to)

\* /\[[\s\S]*\]/
ArrayRegex == Cat(<<Lit("["), Star(AnyChar), Lit("]")>>)

\* /: "((?:[^"\\]|\\.)*)"/g
ValueRegex ==
    Cat(<<Lit(": \""),
          Grp(1, StarChain(Alt(<<NCls({"\"", "\\"}), Cat(<<Lit("\\"), Dot>>)>>))),
          Lit("\"")>>)

\* /([^\\])"/g
BareQuoteRegex == Cat(<<Grp(1, NCls({"\\"})), Lit("\"")>>)

\* p1.replace(/([^\\])"/g, '$1\\"')
EscapeQuotes(p1) ==
    LET ms == MatchAll(p1, BareQuoteRegex, 1, 0)
    IN Splice(p1, ms, [k \in 1..Len(ms) |-> ms[k].caps[1].str \o "\\\""], 1, 0)

\* the replace with the callback, of line 313
FixValues(jsonString) ==
    LET ms == MatchAll(jsonString, ValueRegex, 1, 0)
    IN Splice(jsonString, ms,
              [k \in 1..Len(ms) |-> ": \"" \o EscapeQuotes(ms[k].caps[1].str) \o "\""],
              1, 0)

\* a variant of RepairRules without the removal of trailing commas
RepairRules_KeepCommas ==
    << <<Lit("\\\""), "\"">>,
       <<Lit("\\n"), " ">>,
       <<Lit("\\t"), " ">>,
       <<Lit("\\r"), " ">>,
       <<Cat(<<Lit("}"), Star(Ws), Lit(","), Star(Ws), Lit("}")>>), "}}">>,
       <<Cat(<<Lit("]"), Star(Ws), Lit(","), Star(Ws), Lit("]")>>), "]]">> >>

\* the replace calls of lines 300 to 308, in the order of the code: the
\* expression and what each match is replaced with
RepairRules ==
    << <<Lit("\\\""), "\"">>,
       <<Lit("\\n"), " ">>,
       <<Lit("\\t"), " ">>,
       <<Lit("\\r"), " ">>,
       <<Cat(<<Lit(","), Star(Ws), Lit("}")>>), "}">>,
       <<Cat(<<Lit(","), Star(Ws), Lit("]")>>), "]">>,
       <<Cat(<<Lit("}"), Star(Ws), Lit(","), Star(Ws), Lit("}")>>), "}}">>,
       <<Cat(<<Lit("]"), Star(Ws), Lit(","), Star(Ws), Lit("]")>>), "]]">> >>

RECURSIVE ReplaceEach(_, _, _)
ReplaceEach(s, rules, k) ==
    IF k > Len(rules) THEN s
    ELSE ReplaceEach(ReplaceAll(s, rules[k][1], rules[k][2]), rules, k + 1)

\* the clean-up of the located text, lines 300 to 317
Repair(jsonString) == FixValues(ReplaceEach(jsonString, RepairRules, 1))

PlaceholderMatch ==
    "Privacy Violation: Potential privacy issue detected\n\nSuggested Fix: Review this line for privacy compliance\n\nSeverity: MEDIUM"

\* a variant of ActualLineNumber that adds the local line to startLine as it is
ActualLineNumber_Unshifted(lineNumber, startLine) ==
    IF lineNumber.t = "arr"
    THEN NumAdd(Num(startLine),
                ToNumber(IF Len(lineNumber.v) > 0 THEN lineNumber.v[1] ELSE Undefined))
    ELSE NumAdd(Num(startLine), parseInt(ToStr(lineNumber)))

\* the absolute line of a finding, lines 329 to 334
ActualLineNumber(lineNumber, startLine) ==
    IF lineNumber.t = "arr"
    THEN NumAdd(Num(startLine),
                NumSub(ToNumber(IF Len(lineNumber.v) > 0 THEN lineNumber.v[1]
                                ELSE Undefined),
                       Num(1)))
    ELSE NumAdd(Num(startLine), NumSub(parseInt(ToStr(lineNumber)), Num(1)))

\* the finding pushed for one element of the parsed array, lines 323 to 339
Finding(violation, startLine) ==
    LET lineNumber == GetProp(violation, "line")
        type == JOr(JOr(GetProp(violation, "type"), GetProp(violation, "category")),
                    JStr("Privacy Violation"))
        description == JOr(JOr(JOr(GetProp(violation, "description"),
                                   GetProp(violation, "detail")),
                               GetProp(violation, "brief")),
                           JStr("Privacy violation detected"))
        suggestedFix == JOr(JOr(GetProp(violation, "suggestedFix"),
                                GetProp(violation, "fix")),
                            JStr("Review and fix the privacy issue"))
        severity == JOr(GetProp(violation, "severity"), JStr("MEDIUM"))
    IN [line |-> ActualLineNumber(lineNumber, startLine),
        match |-> ToStr(type) \o ": " \o ToStr(description)
                      \o "\n\nSuggested Fix: " \o ToStr(suggestedFix)
                      \o "\n\nSeverity: " \o ToStr(severity)]

\* the for loop of line 322: reading a property of null throws a TypeError,
\* which leaves the findings pushed before it in place
RECURSIVE EmitFindings(_, _, _, _)
EmitFindings(elems, k, startLine, acc) ==
    IF k > Len(elems) THEN [thrown |-> FALSE, list |-> acc]
    ELSE IF elems[k].t = "null" THEN [thrown |-> TRUE, list |-> acc]
    ELSE EmitFindings(elems, k + 1, startLine, Append(acc, Finding(elems[k], startLine)))

\* the catch of line 341: one placeholder finding for each line of the raw
\* response that holds the text undefined
RECURSIVE SalvageLines(_, _, _)
SalvageLines(respLines, i, startLine) ==
    IF i >= Len(respLines) THEN <<>>
    ELSE (IF includes(respLines[i + 1], "undefined")
          THEN <<[line |-> Num(startLine + i), match |-> PlaceholderMatch]>>
          ELSE <<>>) \o SalvageLines(respLines, i + 1, startLine)

\* a variant of Salvage whose catch pushes nothing
Salvage_Nothing(resp, startLine) == <<>>

Salvage(resp, startLine) ==
    IF includes(resp, "undefined") THEN SalvageLines(Split(resp), 0, startLine) ELSE <<>>

\* the located and repaired text handed to JSON.parse
RepairedText(resp, jsonMatch) ==
    Repair(SubSeq(resp, jsonMatch.start + 1, jsonMatch.end))

\* after the for loop of line 322: its findings, and those of the catch of
\* line 341 when it threw
AfterLoop(emitted, resp, startLine) ==
    IF emitted.thrown THEN emitted.list \o Salvage(resp, startLine)
    ELSE emitted.list

\* the try of line 320 on what JSON.parse made of the repaired text
AfterParse(parsed, resp, startLine) ==
    IF ~parsed.ok THEN Salvage(resp, startLine)
    ELSE AfterLoop(EmitFindings(parsed.val.v, 1, startLine, <<>>), resp, startLine)

\* a variant of AfterMatch that reports a placeholder when no array is located
AfterMatch_Placeholder(jsonMatch, resp, startLine) ==
    IF ~jsonMatch.ok THEN <<[line |-> Num(startLine), match |-> PlaceholderMatch]>>
    ELSE AfterParse(JsonParse(RepairedText(resp, jsonMatch)), resp, startLine)

\* parseGeminiResponse once response.match(/\[[\s\S]*\]/) is known
AfterMatch(jsonMatch, resp, startLine) ==
    IF ~jsonMatch.ok THEN <<>>
    ELSE AfterParse(JsonParse(RepairedText(resp, jsonMatch)), resp, startLine)

parseGeminiResponse(resp, startLine) ==
    AfterMatch(StrMatch(resp, ArrayRegex, 0), resp, startLine)

(***************************************************************************)
(* GeminiPrivacyRule.evaluate, scanWithGemini, analyzeChunk                *)
(***************************************************************************)
chunkSize == 200

\* the most full windows a modelled file has before its last lines
MaxChunks == 2

RECURSIVE Repeat(_, _)
Repeat(s, n) ==
    IF n = 0 THEN ""
    ELSE IF n % 2 = 0 THEN LET h == Repeat(s, n \div 2) IN h \o h
    ELSE s \o Repeat(s, n - 1)

CodeLine == "const k = 'a@b.io';"

\* the text of a window of chunkSize lines: its first line is code or a
\* comment and the others are empty, or all are empty
BlockKinds == {"code", "blank", "comment"}

BlockText(kind) ==
    (CASE kind = "code" -> CodeLine [] kind = "comment" -> "// note" [] OTHER -> "  ")
        \o Repeat("\n", chunkSize - 1)

RECURSIVE BlocksText(_)
BlocksText(kinds) ==
    IF kinds = <<>> THEN ""
    ELSE BlockText(Head(kinds)) \o (IF Len(kinds) > 1 THEN "\n" ELSE "")
             \o BlocksText(Tail(kinds))

\* what follows the full windows: nothing, a last line of code, or the
\* newline that ends the last line of a text file
Tails == {"none", "code", "newline"}

FileText(kinds, tail) ==
    BlocksText(kinds)
        \o (CASE tail = "code" -> (IF kinds = <<>> THEN "" ELSE "\n") \o CodeLine
              [] tail = "newline" -> "\n"
              [] OTHER -> "")

\* the content argument of evaluate: a text, or a value that is no string
\* (the parameter is typed string, which nothing checks at run time)
Contents ==
    {JStr(FileText(kinds, tail)) :
         kinds \in UNION {[1..n -> BlockKinds] : n \in 0..MaxChunks}, tail \in Tails}
        \cup {Undefined}

\* the texts generateContent answers with
\* a well-formed array: a line number with category and detail, and a range
ValidReply ==
    "[{\"line\": 3, \"category\": \"Secrets\", \"detail\": \"key in code\", \"severity\": \"HIGH\", \"fix\": \"use env\"}, {\"line\": [5,9], \"type\": \"Logging\", \"brief\": \"b\"}]"

\* commentary around the array, a line number in quotes, trailing commas
CommentedReply == "Here: [{\"line\": \"7\", \"type\": \"T\",},] done"

NoArrayReply == "I found nothing."

\* text that JSON.parse rejects, with the word undefined on two of its lines
UndefinedReply == "[{\"line\": 2, \"type\": undefined}]\nline undefined\nx"

\* text that JSON.parse rejects, without that word
BrokenReply == "[{\"line\": 2 \"type\": 1}]"

EmptyReply == "[]"

\* an array whose one defect is the comma before } and before ]
TrailingCommaReply == "[{\"line\": 4, \"type\": \"T\",},]"

\* a well-formed array after commentary that holds brackets of its own
BracketedReply == "Note [1]: [{\"line\": 3, \"type\": \"T\"}]"

\* an array JSON.parse accepts whose element has no properties to read
NullReply == "[null]"

\* an array with a finding at line 0 and a finding that states no line
ZeroLineReply == "[{\"line\": 0, \"type\": \"T\"}, {\"type\": \"T\"}]"

Replies ==
    {ValidReply, CommentedReply, NoArrayReply, UndefinedReply, BrokenReply, EmptyReply,
     TrailingCommaReply, BracketedReply, NullReply, ZeroLineReply}

\* chunk: lines.slice(i, chunkEnd).join('\n')
\* a variant of ChunkEnd that takes one line of the next window as well
ChunkEnd_Overlap(ls, i) == IF i + chunkSize + 1 < Len(ls) THEN i + chunkSize + 1 ELSE Len(ls)

ChunkEnd(ls, i) == IF i + chunkSize < Len(ls) THEN i + chunkSize ELSE Len(ls)

ChunkText(ls, i) == Join(ls, i, ChunkEnd(ls, i))

\* the loop of scanWithGemini from index i on: the index of the first window
\* that is not skipped, Len(ls) or more when every window left is skipped
NextChunk(ls, i) ==
    LET todo == {j \in i..(Len(ls) - 1) :
                     /\ (j - i) % chunkSize = 0
                     /\ Len(trim(ChunkText(ls, j))) # 0}
    IN IF todo = {} THEN Len(ls) ELSE Least(todo)

\* codeLines of lines 134 to 143 for the window that starts at index i: the
\* lines that are not empty once trimmed and do not start with a comment mark.
\* The code writes their number to the log and makes no other use of them.
CodeLines(ls, i) ==
    {k \in (i + 1)..ChunkEnd(ls, i) :
        /\ Len(trim(ls[k])) > 0
        /\ \A m \in {"//", "/*", "*", "*/", "#", "<!--", "-->"} :
               ~(Len(trim(ls[k])) >= Len(m) /\ SubSeq(trim(ls[k]), 1, Len(m)) = m)}

\* a response with two findings that state all their fields, and what the
\* rule emits for it (lines 322 to 340): their match texts are AiText and
\* ColonText
FullReply ==
    "[{\"line\": 1, \"type\": \"Secrets\", \"description\": \"key in code\", "
        \o "\"fix\": \"use env\", \"severity\": \"HIGH\"}, "
        \o "{\"line\": 2, \"type\": \"PII: email\", \"description\": \"d\", "
        \o "\"fix\": \"f\", \"severity\": \"LOW\"}]"

Emitted == parseGeminiResponse(FullReply, 1)

\* chunkStart of line 125 for the windows of a modelled file
StartLines == {k * chunkSize + 1 : k \in 0..MaxChunks}

\* this.parseGeminiResponse(responseText, startLine) of line 180, for every
\* modelled answer and window
Parsed == [t \in Replies, n \in StartLines |-> parseGeminiResponse(t, n)]

\* what analyzeChunk returns for an outcome of the race of generateContent
\* with the timer: out.kind is "timeout" (the timer rejects first), "error"
\* (generateContent rejects) or "reply" (it resolves, out.text is response.text)
analyzeChunk(out, startLine) ==
    IF out.kind # "reply" THEN <<>>
    ELSE IF ~ToBoolean(out.text) THEN <<>>
    ELSE Parsed[out.text.v, startLine]

Pending == [kind |-> "pending", text |-> Undefined]

\* a generateContent invocation not settled yet: the chunk it is for (first
\* and last line), its outcome and what analyzeChunk returned for it
Call(ls, next) ==
    [start |-> next + 1, end |-> ChunkEnd(ls, next), out |-> Pending, got |-> <<>>]

\* a variant of ScanTo that does not await: it issues the invocation for the
\* window of index next and, at once, the one for the window after it
ScanTo_NoAwait(ls, next, acc, log) ==
    IF next < Len(ls)
    THEN /\ pc' = "awaiting"
         /\ idx' = next
         /\ found' = acc
         /\ returned' = <<>>
         /\ calls' = IF next + chunkSize < Len(ls)
                      THEN Append(Append(log, Call(ls, next)), Call(ls, next + chunkSize))
                      ELSE Append(log, Call(ls, next))
    ELSE /\ pc' = "done"
         /\ idx' = next
         /\ found' = acc
         /\ returned' = acc
         /\ calls' = log

\* scanWithGemini when its loop is at the window of index next, or past the
\* last one: up to its next await or its return
ScanTo(ls, next, acc, log) ==
    IF next < Len(ls)
    THEN /\ pc' = "awaiting"
         /\ idx' = next
         /\ found' = acc
         /\ returned' = <<>>
         /\ calls' = Append(log, Call(ls, next))
    ELSE /\ pc' = "done"
         /\ idx' = next
         /\ found' = acc
         /\ returned' = acc
         /\ calls' = log

\* the loop of lines 124 to 132 for the modelled files, computed once: the
\* lines of a file and the index the loop is at give the index of the next
\* window that is not skipped
SplitContents == {Split(c.v) : c \in {d \in Contents : d.t = "str"}}

NextChunks ==
    [ls \in SplitContents, i \in {k * chunkSize : k \in 0..(MaxChunks + 1)} |->
        NextChunk(ls, i)]

\* scanWithGemini from index i on
ScanFrom(ls, i, acc, log) == ScanTo(ls, NextChunks[ls, i], acc, log)

\* setEnabled, called between two evaluate calls
SetEnabled(b) ==
    /\ pc = "idle"
    /\ enabled' = b
    /\ UNCHANGED <<pc, content, lines, idx, found, returned, calls>>
    /\ UNCHANGED <<svars, rvars, kvars>>

\* a variant of Evaluate without the try and catch of lines 109 to 115
Evaluate_NoCatch(c) ==
    /\ pc = "idle"
    /\ content' = c
    /\ IF ~enabled
       THEN /\ pc' = "done"
            /\ returned' = <<>>
            /\ UNCHANGED <<lines, idx, found, calls>>
       ELSE IF c.t # "str"
       THEN /\ pc' = "threw"
            /\ UNCHANGED <<lines, idx, found, returned, calls>>
       ELSE /\ lines' = Split(c.v)
            /\ ScanFrom(Split(c.v), 0, <<>>, <<>>)
    /\ UNCHANGED enabled
    /\ UNCHANGED <<svars, rvars, kvars>>

\* a variant of Evaluate without the test of config.enabled of line 105
Evaluate_IgnoreFlag(c) ==
    /\ pc = "idle"
    /\ content' = c
    /\ IF c.t # "str"
       THEN /\ pc' = "done"
            /\ returned' = <<>>
            /\ UNCHANGED <<lines, idx, found, calls>>
       ELSE /\ lines' = Split(c.v)
            /\ ScanFrom(Split(c.v), 0, <<>>, <<>>)
    /\ UNCHANGED enabled
    /\ UNCHANGED <<svars, rvars, kvars>>

\* evaluate(content, filePath), up to its first await or its return
Evaluate(c) ==
    /\ pc = "idle"
    /\ content' = c
    /\ IF ~enabled
       THEN /\ pc' = "done"
            /\ returned' = <<>>
            /\ UNCHANGED <<lines, idx, found, calls>>
       ELSE IF c.t # "str"
       THEN \* content.split throws; the catch of evaluate returns violations
            /\ pc' = "done"
            /\ returned' = <<>>
            /\ UNCHANGED <<lines, idx, found, calls>>
       ELSE /\ lines' = Split(c.v)
            /\ ScanFrom(Split(c.v), 0, <<>>, <<>>)
    /\ UNCHANGED enabled
    /\ UNCHANGED <<svars, rvars, kvars>>

\* a variant of Settle in which a failed call ends the loop: the failure
\* reaches the catch of evaluate, which returns an empty list
Settle_Abort(out) ==
    /\ pc = "awaiting"
    /\ IF out.kind # "reply"
       THEN /\ pc' = "done"
            /\ returned' = <<>>
            /\ calls' = [calls EXCEPT ![Len(calls)] = [@ EXCEPT !.out = out]]
            /\ UNCHANGED <<idx, found>>
       ELSE ScanFrom(lines, idx + chunkSize,
                     found \o analyzeChunk(out, idx + 1),
                     [calls EXCEPT ![Len(calls)] =
                          [@ EXCEPT !.out = out, !.got = analyzeChunk(out, idx + 1)]])
    /\ UNCHANGED <<enabled, content, lines>>
    /\ UNCHANGED <<svars, rvars, kvars>>

\* a variant of Settle that invokes the service a second time for a chunk
\* whose first invocation timed out or was rejected
Settle_Retry(out) ==
    /\ pc = "awaiting"
    /\ IF /\ out.kind \in {"timeout", "error"}
          /\ \A k \in 1..(Len(calls) - 1) : calls[k].start # idx + 1
       THEN ScanTo(lines, idx, found, [calls EXCEPT ![Len(calls)] = [@ EXCEPT !.out = out]])
       ELSE ScanFrom(lines, idx + chunkSize,
                     found \o analyzeChunk(out, idx + 1),
                     [calls EXCEPT ![Len(calls)] =
                          [@ EXCEPT !.out = out, !.got = analyzeChunk(out, idx + 1)]])
    /\ UNCHANGED <<enabled, content, lines>>
    /\ UNCHANGED <<svars, rvars, kvars>>

\* the race of line 169 settles with out; analyzeChunk returns and the loop
\* goes on to its next await or to the return of evaluate
Settle(out) ==
    /\ pc = "awaiting"
    /\ ScanFrom(lines, idx + chunkSize,
                found \o analyzeChunk(out, idx + 1),
                [calls EXCEPT ![Len(calls)] =
                     [@ EXCEPT !.out = out, !.got = analyzeChunk(out, idx + 1)]])
    /\ UNCHANGED <<enabled, content, lines>>
    /\ UNCHANGED <<svars, rvars, kvars>>

\* a variant of LlmTimeout for a race without the timeoutPromise of lines 160
\* to 162: nothing settles the race but generateContent
LlmTimeout_NoTimer == FALSE /\ UNCHANGED vars

LlmTimeout == Settle([kind |-> "timeout", text |-> Undefined])

LlmError == Settle([kind |-> "error", text |-> Undefined])

LlmReply == \E t \in Replies : Settle([kind |-> "reply", text |-> JStr(t)])

LlmNoText == \E t \in {Undefined, JStr("")} : Settle([kind |-> "reply", text |-> t])

\* the caller takes the result; the rule is ready for the next file
Finish ==
    /\ pc = "done"
    /\ pc' = "idle"
    /\ content' = Undefined
    /\ lines' = <<>>
    /\ idx' = 0
    /\ found' = <<>>
    /\ returned' = <<>>
    /\ calls' = <<>>
    /\ UNCHANGED enabled
    /\ UNCHANGED <<svars, rvars, kvars>>

(***************************************************************************)
(* The web server: app.post('/scan', ...)                                  *)
(***************************************************************************)
\* the most files of one upload
MaxFiles == 2

\* the most raw strings engine.run resolves with
MaxFindings == 2

Names == {"a.js", "b.js"}

Uploads == UNION {[1..n -> Names] : n \in 0..MaxFiles}

RawLists == UNION {[1..n -> RawTexts] : n \in 0..MaxFindings}

Range(f) == {f[k] : k \in DOMAIN f}

NoResponse == [status |-> 0]

\* the handler up to its first await (engine.run) or its early return;
\* geminiApiKey and vertexProjectId are the values of lines 51 and 52, the
\* request field or else the environment variable, "" when both are missing
\* (aiEnabled, line 49, is computed from the field of the request body and
\* not read again)
ScanStart(uploaded, aiEnabledField, geminiApiKey, vertexProjectId) ==
    /\ spc = "idle"
    /\ files' = uploaded
    /\ aiEnabled' = (aiEnabledField = "true")
    /\ IF Len(uploaded) = 0
       THEN /\ response' = [status |-> 400, error |-> "No files uploaded"]
            /\ spc' = "responded"
            /\ UNCHANGED <<geminiEnabled, temp>>
       ELSE /\ temp' = temp \cup Range(uploaded)
            /\ geminiEnabled' = (geminiApiKey # "" \/ vertexProjectId # "")
            /\ spc' = "running"
            /\ UNCHANGED response
    /\ UNCHANGED violations
    /\ UNCHANGED <<gvars, rvars, kvars>>

\* engine.run resolves with the raw strings vs: the clean-up of the uploads,
\* the map, the sort and res.json
EngineResolve(vs) ==
    /\ spc = "running"
    /\ violations' = vs
    /\ temp' = temp \ Range(files)
    /\ response' = [status |-> 200,
                    success |-> TRUE,
                    violations |-> SortViolations(MapNormalize(vs)),
                    totalFiles |-> Len(files),
                    totalViolations |-> Len(vs)]
    /\ spc' = "responded"
    /\ UNCHANGED <<files, aiEnabled, geminiEnabled>>
    /\ UNCHANGED <<gvars, rvars, kvars>>

\* engine.run rejects: the catch of line 281
EngineReject ==
    /\ spc = "running"
    /\ response' = [status |-> 500, error |-> "Internal server error",
                    message |-> "scan failed"]
    /\ spc' = "responded"
    /\ UNCHANGED <<files, aiEnabled, geminiEnabled, temp, violations>>
    /\ UNCHANGED <<gvars, rvars, kvars>>

\* the request is over; the server waits for the next one
ScanReset ==
    /\ spc = "responded"
    /\ spc' = "idle"
    /\ files' = <<>>
    /\ aiEnabled' = FALSE
    /\ geminiEnabled' = FALSE
    /\ violations' = <<>>
    /\ response' = NoResponse
    /\ UNCHANGED temp
    /\ UNCHANGED <<gvars, rvars, kvars>>

(***************************************************************************)
(* The /scan handler under concurrent requests.  Every request uses the    *)
(* same directory, path.join(__dirname, '../temp') of line 62, and names   *)
(* its files by their original names (line 70).  A handler runs without    *)
(* interruption up to its await of line 108 and again after it.            *)
(***************************************************************************)
Requests == {1, 2}

\* no upload of that name is in the directory
NoOwner == 0

IdleHandler ==
    [pc |-> "idle", filePaths |-> <<>>, hasRead |-> FALSE, read |-> {},
     unlinked |-> {}, status |-> 0]

\* the files in the directory, each with the request whose upload it is
Listing(dir) == {<<n, dir[n]>> : n \in {m \in Names : dir[m] # NoOwner}}

\* lines 46 to 108: the uploads of request r are renamed into the directory,
\* taking the place of a file of the same name, and engine.run is called
RequestStart(r, uploaded) ==
    /\ handlers[r].pc = "idle"
    /\ IF Len(uploaded) = 0
       THEN /\ handlers' = [handlers EXCEPT ![r] = [@ EXCEPT !.pc = "responded",
                                                             !.status = 400]]
            /\ UNCHANGED tempDir
       ELSE /\ tempDir' = [n \in Names |-> IF n \in Range(uploaded) THEN r ELSE tempDir[n]]
            /\ handlers' = [handlers EXCEPT ![r] = [@ EXCEPT !.pc = "running",
                                                             !.filePaths = uploaded]]
    /\ UNCHANGED <<gvars, svars, kvars>>

\* engine.run(tempDir), line 108: the engine is given the directory and
\* nothing else, and scans the files that are in it when it reads it
EngineRead(r) ==
    /\ handlers[r].pc = "running"
    /\ ~handlers[r].hasRead
    /\ handlers' = [handlers EXCEPT ![r] = [@ EXCEPT !.hasRead = TRUE,
                                                     !.read = Listing(tempDir)]]
    /\ UNCHANGED tempDir
    /\ UNCHANGED <<gvars, svars, kvars>>

\* lines 110 to 279: engine.run has resolved; every path of filePaths is
\* unlinked (an unlink that fails is logged, lines 112 to 116) and the
\* violations, which come from the files read, are answered
RequestResolve(r) ==
    /\ handlers[r].pc = "running"
    /\ handlers[r].hasRead
    /\ tempDir' = [n \in Names |->
                      IF n \in Range(handlers[r].filePaths) THEN NoOwner ELSE tempDir[n]]
    /\ handlers' = [handlers EXCEPT ![r] =
                        [@ EXCEPT !.pc = "responded",
                                  !.status = 200,
                                  !.unlinked = {e \in Listing(tempDir) :
                                                    e[1] \in Range(handlers[r].filePaths)}]]
    /\ UNCHANGED <<gvars, svars, kvars>>

\* lines 281 to 287: engine.run has rejected
RequestReject(r) ==
    /\ handlers[r].pc = "running"
    /\ handlers' = [handlers EXCEPT ![r] = [@ EXCEPT !.pc = "responded", !.status = 500]]
    /\ UNCHANGED tempDir
    /\ UNCHANGED <<gvars, svars, kvars>>

\* the request is over
RequestEnd(r) ==
    /\ handlers[r].pc = "responded"
    /\ handlers' = [handlers EXCEPT ![r] = IdleHandler]
    /\ UNCHANGED tempDir
    /\ UNCHANGED <<gvars, svars, kvars>>

(***************************************************************************)
(* ConfigManager (config/PrivacyConfig.ts).  An object of the program is   *)
(* an entry of heap and a reference is its index; two references to the    *)
(* same index are the same object.  A missing environment variable is "".  *)
(* A temperature is counted in tenths.                                     *)
(***************************************************************************)
\* the most ConfigManager instances
MaxManagers == 2

\* parseFloat(s) of a decimal numeral, in tenths, to the first decimal
parseFloat(s) ==
    LET lead == RunLength(Cls(WhiteSpace), s, 0)
        n == RunLength(Cls(DigitChars), s, lead)
        dot == StartsAt(s, lead + n, ".")
        f == IF dot THEN RunLength(Cls(DigitChars), s, lead + n + 1) ELSE 0
    IN IF n = 0 /\ f = 0 THEN NaN
       ELSE Num(10 * (IF n = 0 THEN 0 ELSE DigitsValue(SubSeq(s, lead + 1, lead + n)))
                  + (IF f = 0 THEN 0
                     ELSE DigitsValue(SubSeq(s, lead + n + 2, lead + n + 2))))

NoEnv ==
    [CLAUDE_ENABLED |-> "", CLAUDE_API_KEY |-> "", CLAUDE_MODEL |-> "",
     CLAUDE_MAX_TOKENS |-> "", CLAUDE_TEMPERATURE |-> "", HARDCODED_RULES_ENABLED |-> ""]

Envs ==
    {NoEnv,
     [NoEnv EXCEPT !.CLAUDE_ENABLED = "true", !.CLAUDE_API_KEY = "envkey"],
     [CLAUDE_ENABLED |-> "false", CLAUDE_API_KEY |-> "envkey", CLAUDE_MODEL |-> "m2",
      CLAUDE_MAX_TOKENS |-> "8000", CLAUDE_TEMPERATURE |-> "0.5",
      HARDCODED_RULES_ENABLED |-> "false"]}

\* the three objects the literal of lines 24 to 39 creates when the module is
\* loaded with the environment e
DefaultObjects(e) ==
    << [enabled |-> FALSE, apiKey |-> e.CLAUDE_API_KEY,
        model |-> "claude-3-sonnet-20240229", maxTokens |-> Num(4000),
        temperature |-> Num(1)],
       [enabled |-> TRUE],
       [chunkSize |-> 50, maxFileSize |-> 1024 * 1024] >>

\* defaultConfig: its properties refer to those three objects
defaultConfig == [claudeSonnet |-> 1, hardcodedRules |-> 2, scanning |-> 3]

\* the argument of the constructor: nothing, or a claudeSonnet object of the
\* caller's own
Partials ==
    {[given |-> FALSE],
     [given |-> TRUE,
      claudeSonnet |-> [enabled |-> FALSE, apiKey |-> "own", model |-> "m1",
                        maxTokens |-> Num(1000), temperature |-> Num(0)]]}

\* new ConfigManager(config): this.config = { ...defaultConfig, ...config }
\* copies the properties of defaultConfig, which are references
NewConfigManager(config) ==
    /\ Len(managers) < MaxManagers
    /\ IF config.given
       THEN /\ heap' = Append(heap, config.claudeSonnet)
            /\ managers' = Append(managers,
                                  [defaultConfig EXCEPT !.claudeSonnet = Len(heap) + 1])
       ELSE /\ managers' = Append(managers, defaultConfig)
            /\ UNCHANGED heap
    /\ UNCHANGED env
    /\ UNCHANGED <<gvars, svars, rvars>>

getClaudeConfig(m) == heap[managers[m].claudeSonnet]

getHardcodedConfig(m) == heap[managers[m].hardcodedRules]

getScanningConfig(m) == heap[managers[m].scanning]

isClaudeAvailable(m) == getClaudeConfig(m).enabled /\ getClaudeConfig(m).apiKey # ""

isHardcodedEnabled(m) == getHardcodedConfig(m).enabled

setClaudeEnabled(m, b) ==
    /\ m \in 1..Len(managers)
    /\ heap' = [heap EXCEPT ![managers[m].claudeSonnet].enabled = b]
    /\ UNCHANGED <<managers, env>>
    /\ UNCHANGED <<gvars, svars, rvars>>

setClaudeApiKey(m, apiKey) ==
    /\ m \in 1..Len(managers)
    /\ heap' = [heap EXCEPT ![managers[m].claudeSonnet].apiKey = apiKey]
    /\ UNCHANGED <<managers, env>>
    /\ UNCHANGED <<gvars, svars, rvars>>

\* the claudeSonnet object after the assignments of lines 78 to 96
LoadedClaude(c, e) ==
    [enabled |-> IF e.CLAUDE_ENABLED = "true" THEN TRUE ELSE c.enabled,
     apiKey |-> IF e.CLAUDE_API_KEY # "" THEN e.CLAUDE_API_KEY ELSE c.apiKey,
     model |-> IF e.CLAUDE_MODEL # "" THEN e.CLAUDE_MODEL ELSE c.model,
     maxTokens |-> IF e.CLAUDE_MAX_TOKENS # "" THEN parseInt(e.CLAUDE_MAX_TOKENS)
                   ELSE c.maxTokens,
     temperature |-> IF e.CLAUDE_TEMPERATURE # "" THEN parseFloat(e.CLAUDE_TEMPERATURE)
                     ELSE c.temperature]

loadFromEnv(m) ==
    /\ m \in 1..Len(managers)
    /\ heap' = [heap EXCEPT
                   ![managers[m].claudeSonnet] = LoadedClaude(@, env),
                   ![managers[m].hardcodedRules] =
                       IF env.HARDCODED_RULES_ENABLED = "false"
                       THEN [@ EXCEPT !.enabled = FALSE] ELSE @]
    /\ UNCHANGED <<managers, env>>
    /\ UNCHANGED <<gvars, svars, rvars>>

(***************************************************************************)
(* Specifications                                                          *)
(***************************************************************************)
GInit ==
    /\ enabled = FALSE
    /\ pc = "idle"
    /\ content = Undefined
    /\ lines = <<>>
    /\ idx = 0
    /\ found = <<>>
    /\ returned = <<>>
    /\ calls = <<>>

SIdle ==
    /\ spc = "idle"
    /\ files = <<>>
    /\ aiEnabled = FALSE
    /\ geminiEnabled = FALSE
    /\ temp = {}
    /\ violations = <<>>
    /\ response = NoResponse

RIdle ==
    /\ handlers = [r \in Requests |-> IdleHandler]
    /\ tempDir = [n \in Names |-> NoOwner]

\* PrivacyConfig.ts is loaded with the environment e; no ConfigManager yet
KInit(e) ==
    /\ env = e
    /\ heap = DefaultObjects(e)
    /\ managers = <<>>

Init == GInit /\ SIdle /\ RIdle /\ KInit(NoEnv)

\* the rule: evaluate calls on one GeminiPrivacyRule
Next ==
    \/ \E b \in BOOLEAN : SetEnabled(b)
    \/ \E c \in Contents : Evaluate(c)
    \/ LlmTimeout
    \/ LlmError
    \/ LlmReply
    \/ LlmNoText
    \/ Finish

Spec == Init /\ [][Next]_vars

\* the rule under a running event loop: the timer of line 161 is set when
\* the race starts and fires 30000 ms later when nothing has settled the race
\* before.
\* generateContent may never settle. The steps are those of Next, with two
\* response texts (one that parses, one that does not): what the answer says
\* plays no part in whether the call returns.
LlmReplyLive == \E t \in {ValidReply, BrokenReply} : Settle([kind |-> "reply", text |-> JStr(t)])

NextLive ==
    \/ \E b \in BOOLEAN : SetEnabled(b)
    \/ \E c \in Contents : Evaluate(c)
    \/ LlmTimeout
    \/ LlmError
    \/ LlmReplyLive
    \/ LlmNoText
    \/ Finish

SpecLive == Init /\ [][NextLive]_vars /\ WF_vars(LlmTimeout)

\* the server: scan requests
NextNorm ==
    \/ \E uploaded \in Uploads, aiEnabledField \in {"true", "false"},
          geminiApiKey \in {"", "key"}, vertexProjectId \in {"", "proj"} :
           ScanStart(uploaded, aiEnabledField, geminiApiKey, vertexProjectId)
    \/ \E vs \in RawLists : EngineResolve(vs)
    \/ EngineReject
    \/ ScanReset

SpecNorm == Init /\ [][NextNorm]_vars

\* the server: two scan requests in any interleaving of their steps
NextConc ==
    \/ \E r \in Requests, uploaded \in Uploads : RequestStart(r, uploaded)
    \/ \E r \in Requests : EngineRead(r)
    \/ \E r \in Requests : RequestResolve(r)
    \/ \E r \in Requests : RequestReject(r)
    \/ \E r \in Requests : RequestEnd(r)

SpecConc == Init /\ [][NextConc]_vars

\* ConfigManager instances of one process, created and called in any order
InitConfig == GInit /\ SIdle /\ RIdle /\ \E e \in Envs : KInit(e)

NextConfig ==
    \/ \E config \in Partials : NewConfigManager(config)
    \/ \E m \in 1..MaxManagers, b \in BOOLEAN : setClaudeEnabled(m, b)
    \/ \E m \in 1..MaxManagers, apiKey \in {"k1"} : setClaudeApiKey(m, apiKey)
    \/ \E m \in 1..MaxManagers : loadFromEnv(m)

SpecConfig == InitConfig /\ [][NextConfig]_vars

(***************************************************************************)
(* Properties of the rule                                                  *)
(***************************************************************************)
Settled(k) == calls[k].out.kind # "pending"

\* the findings of all the calls from the k-th on, in the order of the calls
RECURSIVE GotFrom(_)
GotFrom(k) == IF k > Len(calls) THEN <<>> ELSE calls[k].got \o GotFrom(k + 1)

\* the call answered with the text t
Answered(k, t) == calls[k].out.kind = "reply" /\ calls[k].out.text = JStr(t)

\* the local lines the answers that JSON.parse accepts report, in their order:
\* a line 3 and a range from 5 to 9; a line "7"
LocalLines == [t \in {ValidReply, CommentedReply} |->
                  IF t = ValidReply THEN <<3, 5>> ELSE <<7>>]

\* C1: every finding parsed from the answer for a chunk whose first line is
\* startLine has the absolute line startLine + (local - 1), local being the
\* reported line or the lower bound of the reported range, whatever the offset
\* of the chunk in the file.
C1_LineRemapping ==
    \A k \in 1..Len(calls) : \A t \in DOMAIN LocalLines :
        Answered(k, t) =>
            /\ Len(calls[k].got) = Len(LocalLines[t])
            /\ \A j \in 1..Len(LocalLines[t]) :
                   calls[k].got[j].line = Num(calls[k].start + (LocalLines[t][j] - 1))

C1_Witness ==
    /\ pc = "done"
    /\ \E k \in 1..Len(calls) :
           /\ calls[k].start = chunkSize + 1
           /\ Answered(k, ValidReply)
           /\ calls[k].got[2].line = Num(chunkSize + 5)
    /\ \E j \in 1..Len(returned) : returned[j].line = Num(chunkSize + 3)

\* the chunk that starts at index i has a character that is not white space
NonBlank(ls, i) ==
    \E k \in (i + 1)..ChunkEnd(ls, i) :
        \E c \in 1..Len(ls[k]) : Ch(ls[k], c) \notin WhiteSpace

\* the first lines of the chunks of the file that are not blank
NonBlankStarts(ls) ==
    {i + 1 : i \in {j \in 0..(Len(ls) - 1) : j % chunkSize = 0 /\ NonBlank(ls, j)}}

\* the first lines of the windows that are not blank, for the modelled files
NonBlankStartsOf == [ls \in SplitContents |-> NonBlankStarts(ls)]

Failed(k) ==
    \/ calls[k].out.kind \in {"timeout", "error"}
    \/ calls[k].out.kind = "reply" /\ calls[k].out.text \in {Undefined, JStr("")}
    \/ Answered(k, BrokenReply)

\* C3: when the LLM stage fails for a chunk (time-out, transport error, no
\* text, text that cannot be parsed), every non-blank chunk of the file is
\* still invoked, once and in order, and the result returned for the file
\* holds the findings of all the other chunks.
C3_ChunkIsolation ==
    (pc = "done" /\ enabled /\ content.t = "str") =>
        /\ {calls[k].start : k \in 1..Len(calls)} = NonBlankStartsOf[lines]
        /\ \A k \in 1..(Len(calls) - 1) : calls[k].start < calls[k + 1].start
        /\ \A k \in 1..Len(calls) : Settled(k) /\ (Failed(k) => calls[k].got = <<>>)
        /\ returned = GotFrom(1)

C3_Witness ==
    /\ pc = "done"
    /\ Len(calls) = 3
    /\ calls[1].out.kind = "timeout"
    /\ Answered(2, BrokenReply)
    /\ Answered(3, ValidReply)
    /\ Len(returned) = 2
    /\ returned[1].line = Num(2 * chunkSize + 3)

\* C4: evaluate never throws or rejects, whatever the content and whatever
\* the LLM service does; when something fails inside it (the content is no
\* string), it returns an empty list.
C4_EvaluateNeverThrows ==
    /\ pc \in {"idle", "awaiting", "done"}
    /\ (pc = "done" /\ content.t # "str") => returned = <<>>

C4_Witness ==
    /\ enabled
    /\ pc = "done"
    /\ content = Undefined
    /\ returned = <<>>
    /\ calls = <<>>

\* JSON.parse rejects the located and repaired text of the answer t
Unparsable ==
    [t \in Replies |->
        LET jsonMatch == StrMatch(t, ArrayRegex, 0)
        IN jsonMatch.ok /\ ~JsonParse(RepairedText(t, jsonMatch)).ok]

\* the indices, from 0, of the lines of the answer t that hold "undefined"
UndefinedLines ==
    [t \in Replies |->
        LET ls == Split(t)
        IN {i \in 0..(Len(ls) - 1) : includes(ls[i + 1], "undefined")}]

Answered200 == spc = "responded" /\ response.status = 200

\* the raw strings of the model with no severity field, or with one that is
\* no level
NoLevelTexts ==
    {UrgentText, BareText, LegacyText, JsFileText, PlainText, DescEmailText}

\* C2: every record the normalizer produces, on every branch of the cascade
\* and for every raw text, has severity HIGH, MEDIUM or LOW; a missing or
\* unrecognized severity gives MEDIUM.
C2_SeverityInvariant ==
    Answered200 =>
        /\ \A k \in 1..Len(response.violations) :
               response.violations[k].severity \in {"HIGH", "MEDIUM", "LOW"}
        /\ \A k \in 1..Len(violations) :
               /\ Normalized[violations[k]].severity \in {"HIGH", "MEDIUM", "LOW"}
               /\ violations[k] \in NoLevelTexts =>
                      Normalized[violations[k]].severity = "MEDIUM"

C2_Witness ==
    /\ Answered200
    /\ violations = <<UrgentText, PlainText>>
    /\ response.violations[1].type = "Logging"
    /\ response.violations[1].severity = "MEDIUM"
    /\ response.violations[2].severity = "MEDIUM"

Level(v) ==
    CASE v.severity = "HIGH" -> 3 [] v.severity = "MEDIUM" -> 2
      [] v.severity = "LOW" -> 1 [] OTHER -> 0

\* C6: the records a scan returns are ordered by severity descending: no
\* record comes after a record of strictly lower severity.
C6_SortedBySeverity ==
    Answered200 =>
        \A i, j \in 1..Len(response.violations) :
            i < j => Level(response.violations[i]) >= Level(response.violations[j])

C6_Witness ==
    /\ Answered200
    /\ violations = <<LowText, AiText>>
    /\ response.violations[1].severity = "HIGH"
    /\ response.violations[2].severity = "LOW"

\* the records of the list with the severity sev, in the order of the list
OfSeverity(list, sev) == SelectSeq(list, LAMBDA v : v.severity = sev)

\* C7: the sort is stable: the records of equal severity come in the output
\* in the order their raw findings had in the input.
C7_SortStable ==
    Answered200 =>
        \A sev \in {"HIGH", "MEDIUM", "LOW"} :
            OfSeverity(response.violations, sev)
                = OfSeverity(MapNormalize(violations), sev)

C7_Witness ==
    /\ Answered200
    /\ violations = <<PlainText, BareText>>
    /\ response.violations[1].type = "Unknown"
    /\ response.violations[2].type = "Api key"

\* how many times v is in the list
Count(list, v) == Cardinality({k \in 1..Len(list) : list[k] = v})

\* C8: the normalizer neither drops nor adds a record: its output holds
\* exactly one record for each raw string (it is a permutation of the records
\* of the strings), and totalViolations is the number of records returned.
C8_OneRecordPerString ==
    Answered200 =>
        /\ Len(response.violations) = Len(violations)
        /\ response.totalViolations = Len(response.violations)
        /\ \A t \in RawTexts :
               Count(response.violations, Normalized[t])
                   = Cardinality({k \in 1..Len(violations) :
                                      Normalized[violations[k]] = Normalized[t]})

C8_Witness ==
    /\ Answered200
    /\ violations = <<PlainText, HardcodedText>>
    /\ Len(response.violations) = 2
    /\ response.totalViolations = 2
    /\ response.violations[1].description = PlainText

\* C9, as the specification states it: the text "12 - Email: x" followed by
\* the lines "Description: d", "Fix: f" and "Severity: HIGH" is taken by the
\* extractor of the deterministic rules: line 12, type Email, description d,
\* fix f, severity HIGH.
C9_DeterministicFormat ==
    (Answered200 /\ violations = <<HardcodedText>>) =>
        /\ response.violations[1].line = Num(12)
        /\ response.violations[1].type = "Email"
        /\ response.violations[1].description = "d"
        /\ response.violations[1].fix = "f"
        /\ response.violations[1].severity = "HIGH"

\* C10, as the specification states it: the legacy text
\* [JavaScript] src/app.js:12 - HardcodedEmail ..., which has no severity,
\* gives severity MEDIUM with the file, the line and the type of the text.
C10_LegacyFormat ==
    (Answered200 /\ violations = <<LegacyText>>) =>
        /\ response.violations[1].severity = "MEDIUM"
        /\ response.violations[1].file = "src/app.js"
        /\ response.violations[1].line = Num(12)
        /\ response.violations[1].type = "HardcodedEmail"

\* the raw strings of the model that none of the expressions matches
UnstructuredTexts == {PlainText}

\* C11: a raw text that matches none of the structured formats gives a record
\* whose description is the whole raw string unchanged, whose file and type
\* are "Unknown" and whose severity is MEDIUM.
C11_TotalFallback ==
    Answered200 =>
        \A k \in 1..Len(violations) :
            violations[k] \in UnstructuredTexts =>
                \E j \in 1..Len(response.violations) :
                    /\ response.violations[j].description = violations[k]
                    /\ response.violations[j].file = "Unknown"
                    /\ response.violations[j].type = "Unknown"
                    /\ response.violations[j].severity = "MEDIUM"

C11_Witness ==
    /\ Answered200
    /\ violations = <<PlainText>>
    /\ response.violations[1].description = "no structure"
    /\ response.violations[1].file = "Unknown"

\* C12, as the specification states it: every record of the normalizer, on
\* every branch, has a fix that is not empty, and when there is no fix from a
\* rule the fix is a default that was substituted, not the placeholder N/A.
C12_FixNeverPlaceholder ==
    Answered200 =>
        \A k \in 1..Len(response.violations) :
            /\ response.violations[k].fix # ""
            /\ toUpperCase(response.violations[k].fix) # "N/A"

EmailFix ==
    "Remove hardcoded email addresses and use configuration or environment variables."

ApiKeyFix == "Move API keys to a secure configuration and rotate them immediately."

SsnFix ==
    "Remove SSN collection or justify its necessity and obtain explicit consent."

GenericFix == "Review and fix the privacy issue according to best practices."

\* the fix the statement of C13 gives the AI-format texts of the model: the
\* fix of the text when it has one, the default of the keyword that occurs in
\* its type or in its description when it has none
StatedFix ==
    [t \in {AiText, UrgentText, TailText, BareText, LowText, DescEmailText} |->
        CASE t = AiText -> "use env"
          [] t = UrgentText -> GenericFix
          [] t = TailText -> EmailFix
          [] t = BareText -> ApiKeyFix
          [] t = LowText -> SsnFix
          [] t = DescEmailText -> EmailFix]

\* C13, as the specification states it: a blank or N/A fix is replaced by the
\* default of the keyword (email, api key, ssn) that occurs, in any letter
\* case, in the type or in the description, by a generic one when no keyword
\* occurs; a fix that is not blank is passed through.
C13_DefaultFixSelection ==
    Answered200 =>
        \A k \in 1..Len(violations) :
            violations[k] \in DOMAIN StatedFix =>
                \E j \in 1..Len(response.violations) :
                    /\ response.violations[j] = Normalized[violations[k]]
                    /\ response.violations[j].fix = StatedFix[violations[k]]

(***************************************************************************)
(* Properties of response parsing                                          *)
(***************************************************************************)
\* the text holds a "[" with a "]" somewhere after it
HasArraySpan(t) ==
    \E i \in 1..Len(t) : \E j \in (i + 1)..Len(t) : Ch(t, i) = "[" /\ Ch(t, j) = "]"

\* C14: parsing a response never throws, whatever the text, and a response
\* in which no span from "[" to "]" can be located gives no finding.
C14_NoArrayNoFindings ==
    /\ pc \in {"idle", "awaiting", "done"}
    /\ \A k \in 1..Len(calls) : \A t \in Replies :
           (Answered(k, t) /\ ~HasArraySpan(t)) => calls[k].got = <<>>

C14_Witness ==
    /\ pc = "done"
    /\ Len(calls) = 2
    /\ Answered(1, NoArrayReply)
    /\ calls[1].got = <<>>
    /\ Answered(2, NullReply)
    /\ returned = <<>>

\* TrailingCommaReply without its two trailing commas
WithoutCommas == "[{\"line\": 4, \"type\": \"T\"}]"

\* what the response without the commas gives at each first line of a chunk
WithoutCommasParsed == [n \in StartLines |-> parseGeminiResponse(WithoutCommas, n)]

\* C15: a response whose only defect is a trailing comma before a closing }
\* or ] is repaired and parsed, and gives exactly the findings of the same
\* response without those commas.
C15_TrailingCommaRepair ==
    \A k \in 1..Len(calls) :
        Answered(k, TrailingCommaReply) =>
            /\ calls[k].got = WithoutCommasParsed[calls[k].start]
            /\ Len(calls[k].got) = 1
            /\ calls[k].got[1].line = Num(calls[k].start + 3)

C15_Witness ==
    /\ pc = "done"
    /\ \E k \in 1..Len(calls) :
           /\ Answered(k, TrailingCommaReply)
           /\ calls[k].start = chunkSize + 1
           /\ Len(calls[k].got) = 1
    /\ \E j \in 1..Len(returned) : returned[j].line = Num(chunkSize + 4)

\* the array that the responses with surrounding text wrap
Bare ==
    [t \in {CommentedReply, BracketedReply} |->
        IF t = CommentedReply THEN "[{\"line\": \"7\", \"type\": \"T\",},]"
        ELSE "[{\"line\": 3, \"type\": \"T\"}]"]

\* what the bare array gives at each first line of a chunk
BareParsed == [t \in DOMAIN Bare, n \in StartLines |-> parseGeminiResponse(Bare[t], n)]

\* C16, as the specification states it: a response in which a well-formed
\* array is preceded or followed by commentary, commentary that may hold "["
\* or "]" itself, gives the findings of the bare array.
C16_SurroundingText ==
    \A k \in 1..Len(calls) : \A t \in DOMAIN Bare :
        Answered(k, t) =>
            calls[k].got = BareParsed[t, calls[k].start]

(***************************************************************************)
(* Properties of the invocations                                           *)
(***************************************************************************)
\* C17, as the specification states it: the LLM service is invoked for no
\* chunk that is all blank, and for no chunk whose lines are all blank or
\* comments.
C17_NoCallWithoutCode ==
    \A k \in 1..Len(calls) :
        /\ NonBlank(lines, calls[k].start - 1)
        /\ CodeLines(lines, calls[k].start - 1) # {}

\* the part of C17 the code keeps: no invocation for a chunk that is all blank
C17_NoCallForBlankChunk ==
    \A k \in 1..Len(calls) : NonBlank(lines, calls[k].start - 1)

\* C18: within one evaluate call the LLM service is invoked at most once for
\* a chunk; a chunk whose invocation failed is not invoked again.
C18_AtMostOncePerChunk ==
    \A j \in 1..Len(calls) : \A k \in 1..Len(calls) :
        calls[j].start = calls[k].start => j = k

C18_Witness ==
    /\ pc = "done"
    /\ Len(calls) = 2
    /\ calls[1].out.kind = "error"
    /\ calls[1].start = 1
    /\ calls[2].out.kind = "timeout"
    /\ calls[2].start = chunkSize + 1

\* C19: a rule that is not enabled (it is constructed so, or setEnabled(false)
\* was called) returns an empty list from evaluate and invokes nothing; once
\* setEnabled(true) was called, evaluate invokes the service for a content
\* that has a chunk that is not blank.
C19_EnabledGate ==
    /\ ~enabled => (calls = <<>> /\ returned = <<>> /\ pc \in {"idle", "done"})
    /\ (enabled /\ pc # "idle" /\ content.t = "str" /\ NonBlankStartsOf[lines] # {})
           => calls # <<>>

\* the rule was enabled after its construction and evaluate has invoked
C19_Witness ==
    /\ enabled
    /\ pc = "awaiting"
    /\ Len(calls) = 1
    /\ calls[1].out = Pending

\* the rule is not enabled and evaluate has returned for a content with code
C19_DisabledWitness ==
    /\ ~enabled
    /\ pc = "done"
    /\ content.t = "str"
    /\ CodeLines(Split(content.v), 0) # {}
    /\ returned = <<>>

(***************************************************************************)
(* Properties of the scan request                                          *)
(***************************************************************************)
\* C20, as the specification states it: in a scan request the LLM rule is
\* enabled only when the request asked for AI (aiEnabled is true) and a
\* credential or a project was given; a request that did not ask for AI is
\* scanned by the deterministic rules only.
C20_AiOnlyWhenRequested ==
    spc = "running" => (geminiEnabled => aiEnabled)

\* the part of C20 the code keeps: without an API key and without a project
\* the LLM rule is not enabled (a step of the handler from idle to running
\* enables the rule only when one of the two was given)
C20_CredentialNeeded ==
    [][(spc = "idle" /\ spc' = "running" /\ geminiEnabled')
          => \E uploaded \in Uploads, aiEnabledField \in {"true", "false"},
                geminiApiKey \in {"", "key"}, vertexProjectId \in {"", "proj"} :
                 /\ geminiApiKey # "" \/ vertexProjectId # ""
                 /\ ScanStart(uploaded, aiEnabledField, geminiApiKey, vertexProjectId)]_vars

(***************************************************************************)
(* Termination of evaluate                                                 *)
(***************************************************************************)
\* C21: every chunk analysis returns in the end, with findings or with an
\* empty list, also when the LLM service never answers (the time-out fires
\* and is a failure of that chunk only); hence an evaluate call on a file of
\* finitely many chunks returns.
C21_EvaluateTerminates ==
    /\ \A k \in 1..(MaxChunks + 1) :
           (Len(calls) >= k /\ calls[k].out = Pending)
               ~> (Len(calls) >= k /\ calls[k].out # Pending)
    /\ (pc = "awaiting") ~> (pc = "done")

\* every chunk of the file timed out and evaluate returned
C21_Witness ==
    /\ pc = "done"
    /\ Len(calls) = 2
    /\ calls[1].out.kind = "timeout"
    /\ calls[2].out.kind = "timeout"
    /\ returned = <<>>

(***************************************************************************)
(* Properties of the normalizer: cleaning and round trip                   *)
(***************************************************************************)
\* the level the severity token of a raw text stands for: the token is a
\* level in some letter case followed by punctuation or white space, or it is
\* another word, which stands for MEDIUM
StatedSeverity ==
    [t \in {AiText, UrgentText, TailText, LowText, DottedText} |->
        CASE t = AiText -> "HIGH"
          [] t = UrgentText -> "MEDIUM"
          [] t = TailText -> "HIGH"
          [] t = LowText -> "LOW"
          [] t = DottedText -> "HIGH"]

\* C22, as the specification states it: a severity token that is HIGH, MEDIUM
\* or LOW in any letter case, followed by any trailing punctuation or white
\* space, is cleaned to that level in upper case; every other token is
\* cleaned to MEDIUM.
C22_SeverityCleaning ==
    Answered200 =>
        \A k \in 1..Len(violations) :
            violations[k] \in DOMAIN StatedSeverity =>
                \E j \in 1..Len(response.violations) :
                    /\ response.violations[j] = Normalized[violations[k]]
                    /\ response.violations[j].severity = StatedSeverity[violations[k]]

\* the part of C22 the code keeps: the token followed by nothing, or by the
\* characters ) and " and white space
C22_ListedTails ==
    Answered200 =>
        \A k \in 1..Len(violations) :
            violations[k] \in DOMAIN StatedSeverity \ {DottedText} =>
                Normalized[violations[k]].severity = StatedSeverity[violations[k]]

\* the fields of the two findings of FullReply, as the response states them
EmittedFields ==
    << [type |-> "Secrets", description |-> "key in code", fix |-> "use env",
        severity |-> "HIGH"],
       [type |-> "PII: email", description |-> "d", fix |-> "f", severity |-> "LOW"] >>

\* C23, as the specification states it: from the match text of every finding
\* the LLM-backed rule emits with type T, description D, fix F and severity
\* S, the LLM-format branch of the normalizer recovers T, D, F and the
\* cleaned value of S.
C23_RoundTrip ==
    /\ Len(Emitted) = 2
    /\ Answered200 =>
           \A k \in 1..Len(violations) : \A j \in 1..Len(Emitted) :
               violations[k] = Emitted[j].match =>
                   \E i \in 1..Len(response.violations) :
                       /\ response.violations[i] = Normalized[violations[k]]
                       /\ response.violations[i].language = "AI Detected"
                       /\ response.violations[i].type = EmittedFields[j].type
                       /\ response.violations[i].description = EmittedFields[j].description
                       /\ response.violations[i].fix = EmittedFields[j].fix
                       /\ response.violations[i].severity = EmittedFields[j].severity

\* the part of C23 the code keeps: the round trip of a finding whose type
\* holds no colon
C23_RoundTripPlainType ==
    /\ Emitted[1].match = AiText
    /\ Emitted[2].match = ColonText
    /\ Answered200 =>
           \A k \in 1..Len(violations) :
               violations[k] = Emitted[1].match =>
                   /\ Normalized[violations[k]].type = EmittedFields[1].type
                   /\ Normalized[violations[k]].description = EmittedFields[1].description
                   /\ Normalized[violations[k]].fix = EmittedFields[1].fix
                   /\ Normalized[violations[k]].severity = EmittedFields[1].severity

(***************************************************************************)
(* Properties of the chunks                                                *)
(***************************************************************************)
\* the window of number q (from 0) of a file of n lines: its first and its
\* last line
WindowFirst(q) == chunkSize * q + 1

WindowLast(q, n) == IF chunkSize * (q + 1) < n THEN chunkSize * (q + 1) ELSE n

\* the numbers of the windows of a file of n lines
WindowsOf(n) == {q \in 0..(MaxChunks + 1) : WindowFirst(q) <= n}

\* every line of a file of n lines is in exactly one window, for the numbers
\* of lines of the modelled files
ExactlyOnce ==
    [n \in {Len(ls) : ls \in SplitContents} |->
        \A l \in 1..n :
            Cardinality({q \in WindowsOf(n) :
                             WindowFirst(q) <= l /\ l <= WindowLast(q, n)}) = 1]

\* C24: the chunks of a content of N lines are consecutive windows of at
\* most 200 lines; the chunk of number k (from 0) starts at line 200k + 1 and
\* covers the lines 200k + 1 to min(200(k + 1), N); the windows do not
\* overlap and every line of the file is in exactly one of them.  (A window
\* for which there is no invocation is one the loop skipped as blank.)
C24_ChunkPartition ==
    LET n == Len(lines) IN
    /\ chunkSize = 200
    /\ \A k \in 1..Len(calls) :
           \E q \in WindowsOf(n) :
               /\ calls[k].start = WindowFirst(q)
               /\ calls[k].end = WindowLast(q, n)
               /\ calls[k].end - calls[k].start + 1 \in 1..chunkSize
    /\ \A j \in 1..Len(calls) : \A k \in 1..Len(calls) :
           j < k => calls[j].end < calls[k].start
    /\ lines # <<>> => ExactlyOnce[n]
    /\ (pc = "done" /\ enabled /\ content.t = "str") =>
           \A q \in WindowsOf(n) :
               \/ \E k \in 1..Len(calls) : calls[k].start = WindowFirst(q)
               \/ WindowFirst(q) \notin NonBlankStartsOf[lines]

\* a file of two full windows and a last line: three chunks, the last of
\* them the line 401 alone
C24_Witness ==
    /\ pc = "done"
    /\ Len(lines) = 2 * chunkSize + 1
    /\ Len(calls) = 3
    /\ calls[2].start = chunkSize + 1
    /\ calls[2].end = 2 * chunkSize
    /\ calls[3].start = 2 * chunkSize + 1
    /\ calls[3].end = 2 * chunkSize + 1

\* C25, as the specification states it: every finding the rule emits for a
\* chunk carries a line that is an integer of the range of lines of that
\* chunk (so at least 1 and at most the number of lines of the file),
\* whatever the response: a line that is missing, zero, not a number or out
\* of the range, and a response that takes the parse-failure path.
C25_LineValidity ==
    \A k \in 1..Len(calls) : \A j \in 1..Len(calls[k].got) :
        /\ ~calls[k].got[j].line.nan
        /\ calls[k].got[j].line.v >= calls[k].start
        /\ calls[k].got[j].line.v <= calls[k].end

\* the cases of C25 one by one: a finding with the line 0, a finding with no
\* line, a finding of the parse-failure path past the end of a one-line
\* chunk.  None of them is reachable if C25 holds.
C25_ZeroLine ==
    \E k \in 1..Len(calls) :
        /\ Answered(k, ZeroLineReply)
        /\ calls[k].start = 1
        /\ calls[k].got[1].line = Num(0)
        /\ calls[k].got[2].line = NaN

C25_SalvagedPastEnd ==
    \E k \in 1..Len(calls) :
        /\ Answered(k, UndefinedReply)
        /\ calls[k].end = calls[k].start
        /\ \E j \in 1..Len(calls[k].got) : calls[k].got[j].line.v > Len(lines)

\* the findings of the calls before the k-th, in the order of the calls
RECURSIVE GotBefore(_)
GotBefore(k) == IF k <= 1 THEN <<>> ELSE GotBefore(k - 1) \o calls[k - 1].got

\* C26: the chunks of a file are analysed one at a time in ascending order of
\* their lines: the invocation for a chunk is issued only when the analysis
\* of every chunk before it has returned, and the findings of the file are in
\* the result chunk by chunk, in ascending order of the chunks.
C26_OneChunkAtATime ==
    /\ \A k \in 1..(Len(calls) - 1) :
           /\ Settled(k)
           /\ calls[k].end < calls[k + 1].start
    /\ pc = "awaiting" =>
           /\ calls # <<>>
           /\ ~Settled(Len(calls))
           /\ found = GotBefore(Len(calls))
    /\ (pc = "done" /\ calls # <<>>) =>
           /\ Settled(Len(calls))
           /\ returned = GotBefore(Len(calls) + 1)

\* the second chunk is being analysed, the first one has returned two findings
C26_Witness ==
    /\ pc = "awaiting"
    /\ Len(calls) = 2
    /\ Answered(1, ValidReply)
    /\ calls[2].out = Pending
    /\ Len(found) = 2

(***************************************************************************)
(* Properties of the temporary directory                                   *)
(***************************************************************************)
\* C28, as the specification states it: when a scan request is over, with a
\* success or with an error response, every file it moved into the temporary
\* directory is deleted, so that no file of an earlier request is there when
\* a later request is scanned.
C28_TempFilesDeleted ==
    /\ (spc = "responded" /\ files # <<>>) => temp \cap Range(files) = {}
    /\ spc = "running" => temp = Range(files)

\* the part of C28 the code keeps: after a success response the files of the
\* request are deleted
C28_DeletedOnSuccess ==
    Answered200 => temp \cap Range(files) = {}

\* what request r uploaded, as entries of a listing of the directory
OwnFiles(r) == {<<n, r>> : n \in Range(handlers[r].filePaths)}

\* C27, as the specification states it: under any interleaving of concurrent
\* scan requests the scan of a request reads only the files uploaded in that
\* request and its clean-up deletes only those files (also when two requests
\* upload a file of the same name).
C27_RequestIsolation ==
    \A r \in Requests :
        /\ handlers[r].read \subseteq OwnFiles(r)
        /\ handlers[r].unlinked \subseteq OwnFiles(r)

\* the cases of C27 one by one.  None of them is reachable if C27 holds.
\* A request reads the file of the other request, which is still running:
C27_ReadsForeignFile ==
    /\ handlers[1].pc = "running"
    /\ handlers[1].filePaths = <<"a.js">>
    /\ handlers[2].filePaths = <<"b.js">>
    /\ handlers[2].read = {<<"a.js", 1>>, <<"b.js", 2>>}

\* both requests uploaded a.js; the clean-up of the first deletes the upload
\* of the second, which has not been read yet
C27_UnlinksForeignFile ==
    /\ handlers[1].filePaths = <<"a.js">>
    /\ handlers[2].filePaths = <<"a.js">>
    /\ handlers[1].unlinked = {<<"a.js", 2>>}
    /\ handlers[2].pc = "running"
    /\ ~handlers[2].hasRead

(***************************************************************************)
(* Properties of ConfigManager                                             *)
(***************************************************************************)
\* what can be read through the ConfigManager m
View(m) ==
    [claudeSonnet |-> getClaudeConfig(m), hardcodedRules |-> getHardcodedConfig(m),
     scanning |-> getScanningConfig(m), claudeAvailable |-> isClaudeAvailable(m),
     hardcodedEnabled |-> isHardcodedEnabled(m)]

\* what can be read from defaultConfig
DefaultView ==
    [claudeSonnet |-> heap[defaultConfig.claudeSonnet],
     hardcodedRules |-> heap[defaultConfig.hardcodedRules],
     scanning |-> heap[defaultConfig.scanning]]

\* C29, as the specification states it: a call of setClaudeEnabled,
\* setClaudeApiKey or loadFromEnv on one ConfigManager changes nothing of
\* what is read through any other ConfigManager and nothing of defaultConfig.
C29_ConfigIsolation ==
    [][\A m \in 1..Len(managers) :
           (managers' = managers /\ View(m)' # View(m)) =>
               /\ DefaultView' = DefaultView
               /\ \A o \in 1..Len(managers) : o # m => View(o)' = View(o)]_vars

\* the same for the ConfigManager created later: defaultConfig is at any
\* time what it was when the module was loaded
C29_DefaultsKept ==
    DefaultView = [claudeSonnet |-> DefaultObjects(env)[1],
                   hardcodedRules |-> DefaultObjects(env)[2],
                   scanning |-> DefaultObjects(env)[3]]

\* the part of C29 the code keeps: a ConfigManager made with a claudeSonnet
\* object of the caller's own shares no claudeSonnet field with defaultConfig
C29_OwnObjectApart ==
    \A m \in 1..Len(managers) :
        managers[m].claudeSonnet # defaultConfig.claudeSonnet =>
            \A o \in 1..Len(managers) :
                o # m => managers[o].claudeSonnet # managers[m].claudeSonnet

====
